---- MODULE Spec2Model ----
(***************************************************************************)
(* Brawza browser automation agent: BrowserAgent (orchestration loop and   *)
(* conversation store), BrowserToolExecutor (safety gate and dispatch),    *)
(* PuppeteerManager (driver), BrowserContextService / BrowserContextManager*)
(* (context extraction and snapshot history).                              *)
(*                                                                         *)
(* JavaScript runs one synchronous stretch at a time: every action below   *)
(* is the code between two awaits of one async call.                       *)
(***************************************************************************)
EXTENDS Integers, Sequences, FiniteSets, TLC

(* ------------------------------ bounds --------------------------------- *)
MaxBatch == 2
MaxTicks == 2

(* ------------------------------ domains -------------------------------- *)
Undefined == "undefined"
NoPage == "nopage"
TurnIds == {1, 2}
ConvIds == {"c1", "c2"}
PageIds == {"p1"}
\* a second page session, for the turns that name another page
OtherPageIds == {"p2"}
AllPageIds == PageIds \cup OtherPageIds
BlankUrl == "u1"       \* where a new page starts
NavigatedUrl == "u2"   \* the url argument of the navigate calls
GrantLevels == {Undefined, "safe", "moderate", "dangerous"}

Prop(obj, key) == IF key \in DOMAIN obj THEN obj[key] ELSE Undefined

Truthy(v) == v # Undefined /\ v # ""

(* ------------------------- tool catalog -------------------------------- *)
BROWSER_TOOLS ==
  {"navigate", "click", "type", "scroll", "screenshot", "extract_text",
   "extract_links", "wait_for_element", "get_page_info", "fill_form",
   "evaluate_script"}

ToolNames == BROWSER_TOOLS \cup {"bogus_tool"}

TOOL_SAFETY_LEVELS ==
  [n \in BROWSER_TOOLS |->
     CASE n \in {"navigate", "screenshot", "extract_text", "extract_links",
                 "get_page_info", "wait_for_element"} -> "safe"
       [] n \in {"click", "type", "scroll"} -> "moderate"
       [] OTHER -> "dangerous"]

\* the string value of each ToolSafetyLevel member, as UTF-16 code units
CharCodes(s) ==
  CASE s = "safe" -> <<115, 97, 102, 101>>
    [] s = "moderate" -> <<109, 111, 100, 101, 114, 97, 116, 101>>
    [] s = "dangerous" -> <<100, 97, 110, 103, 101, 114, 111, 117, 115>>

RECURSIVE SeqLE(_, _)
SeqLE(a, b) ==
  IF a = <<>> THEN TRUE
  ELSE IF b = <<>> THEN FALSE
  ELSE IF Head(a) < Head(b) THEN TRUE
  ELSE IF Head(a) > Head(b) THEN FALSE
  ELSE SeqLE(Tail(a), Tail(b))

\* JavaScript `a <= b` on two strings: code-unit lexicographic order
StrLE(a, b) == SeqLE(CharCodes(a), CharCodes(b))

\* the order the safety levels are documented to have
LevelRank(l) ==
  CASE l = "safe" -> 1
    [] l = "moderate" -> 2
    [] l = "dangerous" -> 3
    [] OTHER -> 0

SafetyOfDefaultSafe(name) ==
  IF name \in DOMAIN TOOL_SAFETY_LEVELS THEN TOOL_SAFETY_LEVELS[name] ELSE "safe"

\* TOOL_SAFETY_LEVELS[toolCall.name] || ToolSafetyLevel.MODERATE
SafetyOf(name) ==
  IF name \in DOMAIN TOOL_SAFETY_LEVELS THEN TOOL_SAFETY_LEVELS[name] ELSE "moderate"

canExecuteTool(toolName, safetyLevel, options) ==
  IF options.autoConfirm THEN TRUE
  ELSE \/ safetyLevel = "safe"
       \/ /\ options.safetyLevel # Undefined
          /\ StrLE(safetyLevel, options.safetyLevel)

\* parameters.properties of each catalog entry
Parameters(name) ==
  CASE name = "navigate" -> {"url"}
    [] name = "click" -> {"selector", "description"}
    [] name = "type" -> {"selector", "text", "clear"}
    [] name = "scroll" -> {"direction", "amount"}
    [] name = "screenshot" -> {"fullPage"}
    [] name = "extract_text" -> {"selector"}
    [] name = "extract_links" -> {"filter"}
    [] name = "wait_for_element" -> {"selector", "timeout"}
    [] name = "fill_form" -> {"fields"}
    [] name = "evaluate_script" -> {"script"}
    [] OTHER -> {}

\* parameters.required of each catalog entry
Required(name) ==
  CASE name = "navigate" -> {"url"}
    [] name = "click" -> {"selector"}
    [] name = "type" -> {"selector", "text"}
    [] name = "scroll" -> {"direction"}
    [] name = "wait_for_element" -> {"selector"}
    [] name = "fill_form" -> {"fields"}
    [] name = "evaluate_script" -> {"script"}
    [] OTHER -> {}

\* the shapes the value of an argument is told apart by:
\*   absent      not in the mapping (undefined)
\*   valid       a value of the declared type (for a selector: one the page has)
\*   nomatch     a selector string that no element of any page matches
\*   zero        the number 0 (timeout)
\*   wrongtype   a truthy value of another type than the declared one
\*   notinenum   a string outside the declared enum (direction)
\*   wrongitems  an object whose values are not strings (fields)
ValueKinds(param) ==
  {"absent", "valid", "wrongtype"} \cup
    CASE param = "selector" -> {"nomatch"}
      [] param = "timeout" -> {"zero"}
      [] param = "direction" -> {"notinenum"}
      [] param = "fields" -> {"wrongitems"}
      [] OTHER -> {}

\* toolCall.arguments: undefined, or a mapping from the declared parameters
NoArguments == [defined |-> FALSE, vals |-> <<>>]
Arguments(vals) == [defined |-> TRUE, vals |-> vals]

\* the call a backend makes when it follows the schema: the required
\* parameters and nothing else
ValidArgs(name) ==
  Arguments([p \in Parameters(name) |-> IF p \in Required(name) THEN "valid" ELSE "absent"])

\* the argument shapes tried: undefined, and every mapping that gives each
\* declared parameter one of its shapes
ArgKinds(name) ==
  {NoArguments} \cup
    {Arguments(v) : v \in {f \in [Parameters(name) -> UNION {ValueKinds(p) : p \in Parameters(name)}] :
                             \A p \in Parameters(name) : f[p] \in ValueKinds(p)}}

\* the `!x` tests (and the type tests) at the head of each handler, and the
\* default branch of the switch on the scroll direction: the handler returns
\* a failure before it calls the driver
HandlerRejectsFirstOnly(name, a) ==
  CASE name = "navigate" -> a.url = "absent"
    [] name \in {"click", "type", "wait_for_element"} -> a.selector = "absent"
    [] name = "scroll" -> a.direction \in {"absent", "notinenum", "wrongtype"}
    [] name = "fill_form" -> a.fields \in {"absent", "wrongtype"}
    [] name = "evaluate_script" -> a.script = "absent"
    [] OTHER -> FALSE

HandlerRejects(name, a) ==
  CASE name = "navigate" -> a.url = "absent"
    [] name \in {"click", "wait_for_element"} -> a.selector = "absent"
    [] name = "type" -> a.selector = "absent" \/ a.text = "absent"
    [] name = "scroll" -> a.direction \in {"absent", "notinenum", "wrongtype"}
    [] name = "fill_form" -> a.fields \in {"absent", "wrongtype"}
    [] name = "evaluate_script" -> a.script = "absent"
    [] OTHER -> FALSE

\* a handler that throws while it builds its script: executeExtractLinks
\* calls filter.toLowerCase() on whatever the filter is
HandlerThrows(name, a) == name = "extract_links" /\ a.filter = "wrongtype"

\* the driver primitive each handler awaits
PrimitiveOf(name) ==
  CASE name = "navigate" -> "navigateToUrl"
    [] name = "click" -> "clickElement"
    [] name \in {"type", "fill_form"} -> "fillForm"
    [] name = "screenshot" -> "takeScreenshot"
    [] name = "get_page_info" -> "extractContext"
    [] OTHER -> "evaluateScript"

(* ------------------------------ state ---------------------------------- *)
VARIABLES
  conversations,   \* BrowserAgent.conversations: id -> conversation object (0 = absent)
  heap,            \* the AgentConversation objects ever created
  isInitialized,   \* PuppeteerManager.isInitialized
  browser,         \* PuppeteerManager.browser: number of the launched browser, 0 = null
  launches,        \* browsers launched so far
  pages,           \* PuppeteerManager.pages: page id -> URL of the page, NoPage = absent
  currentContext,  \* BrowserContextManager.currentContext
  contextHistory,  \* BrowserContextManager.contextHistory
  pc,              \* where each sendMessage / executeTool call stands
  turn,            \* the locals of each sendMessage / executeTool call
  now,             \* the reading of Date.now(), in ms since the start
  summaryCall,     \* a call of createContentSummary: its arguments and its result
  httpCall,        \* a sendMessage / sendMessageWithTools call of an adapter
  wireCall,        \* a translation of a conversation into a backend's messages
  requests,        \* RateLimiter.requests: service -> timestamps recorded
  recording,       \* where each recordRequest call stands
  cleaning         \* where the call of PuppeteerManager.cleanup() stands

agentVars == <<conversations, heap, isInitialized, browser, launches, pages,
               currentContext, contextHistory, pc, turn, now>>

\* the components that the agent does not touch while it runs
serviceVars == <<summaryCall, httpCall, wireCall, requests, recording, cleaning>>

\* what the actions of one component leave alone
exceptSummary == <<agentVars, httpCall, wireCall, requests, recording, cleaning>>
exceptHttp == <<agentVars, summaryCall, wireCall, requests, recording, cleaning>>
exceptWire == <<agentVars, summaryCall, httpCall, requests, recording, cleaning>>
exceptLimiter == <<agentVars, summaryCall, httpCall, wireCall, cleaning>>

vars == <<agentVars, serviceVars>>

NoContext == [currentUrl |-> "null", pageTitle |-> "null",
              buttons |-> [defined |-> FALSE, sel |-> {}], error |-> Undefined]

maxHistorySize == 10

(* ----------------------- PuppeteerManager ------------------------------ *)
isReady == isInitialized /\ browser # 0

TitleOf(u) == IF u = "u1" THEN "t1" ELSE "t2"
ButtonsOf(u) == IF u = "u1" THEN {"#b1"} ELSE {"#b1", "#b2"}

\* evaluateScript(pageId, script): the value of the script comes back wrapped
\* as data: { result }
evaluateScript(page, ok, value) ==
  IF page = NoPage THEN [success |-> FALSE, error |-> "Page not found"]
  ELSE IF ok THEN [success |-> TRUE, data |-> [result |-> value]]
  ELSE [success |-> FALSE, error |-> "Script evaluation failed"]

\* fillForm(pageId, formData): every field is tried on its own; resolves says,
\* per selector of formData, whether its wait / click / type went through
fillForm(page, resolves) ==
  IF page = NoPage THEN [success |-> FALSE, data |-> [formData |-> <<>>]]
  ELSE [success |-> TRUE, data |-> [formData |-> resolves]]

\* outcome of the other page primitives; fillForm isolates per-field failures
\* and reports success whenever the page exists
PrimitiveSucceeds(prim, page, ok) ==
  IF page = NoPage THEN FALSE
  ELSE IF prim = "fillForm" THEN TRUE
  ELSE ok

(* --------------------- BrowserContextService --------------------------- *)
getBasicPageInfo(result) ==
  IF result.success THEN result.data
  ELSE [url |-> "unknown", title |-> "Unknown"]

extractInteractiveElements(result) ==
  IF result.success THEN result.data
  ELSE [buttons |-> [defined |-> TRUE, sel |-> {}]]

PropButtons(obj) ==
  IF "buttons" \in DOMAIN obj THEN obj.buttons ELSE [defined |-> FALSE, sel |-> {}]

\* the try block of extractContext: the snapshot built from the outcomes of
\* the driver calls, which report a failure instead of throwing
extractedContext(page, infoOk, elemOk) ==
  LET pageInfo == getBasicPageInfo(
                    evaluateScript(page, infoOk, [url |-> page, title |-> TitleOf(page)]))
      elements == extractInteractiveElements(
                    evaluateScript(page, elemOk,
                       [buttons |-> [defined |-> TRUE, sel |-> ButtonsOf(page)]]))
  IN [currentUrl |-> Prop(pageInfo, "url"),
      pageTitle |-> Prop(pageInfo, "title"),
      buttons |-> PropButtons(elements),
      error |-> Undefined]

\* the snapshot of the catch clause of extractContext
minimalContext(message) ==
  [currentUrl |-> "unknown", pageTitle |-> "Error",
   buttons |-> [defined |-> TRUE, sel |-> {}], error |-> message]

\* the options argument of extractContext: an object (the default {} when
\* the caller passes none), or null
ContextOptions == {"object", "null"}

\* reading a property of options throws a TypeError when options is null:
\* extractInteractiveElements does so while it builds its script
ReadsOfOptionsThrow(options) == options = "null"

extractContextNoCatch(page, options, infoOk, elemOk) ==
  IF ReadsOfOptionsThrow(options)
    THEN [settled |-> "rejected", context |-> NoContext]
    ELSE [settled |-> "resolved", context |-> extractedContext(page, infoOk, elemOk)]

\* extractContext(pageId, options): how the promise settles, and with what
extractContextOutcome(page, options, infoOk, elemOk) ==
  IF ReadsOfOptionsThrow(options)
    THEN [settled |-> "resolved",
          context |-> minimalContext("Cannot read properties of null")]
    ELSE [settled |-> "resolved", context |-> extractedContext(page, infoOk, elemOk)]

\* extractContext called with an options object, as the agent and the
\* executor call it
extractContext(page, infoOk, elemOk) ==
  extractContextOutcome(page, "object", infoOk, elemOk).context

(* --------------------- BrowserContextManager --------------------------- *)
updateContextDropsNewest(cur, hist, context) ==
  LET pushed == IF cur # NoContext THEN Append(hist, cur) ELSE hist
      limited == IF Len(pushed) > maxHistorySize
                   THEN SubSeq(pushed, 1, Len(pushed) - 1) ELSE pushed
  IN <<context, limited>>

\* updateContext(context): the pair <<currentContext', contextHistory'>>
updateContext(cur, hist, context) ==
  LET pushed == IF cur # NoContext THEN Append(hist, cur) ELSE hist
      limited == IF Len(pushed) > maxHistorySize THEN Tail(pushed) ELSE pushed
  IN <<context, limited>>

\* current.lastActionError: a property no code of the repository writes
lastActionError(context) == Prop(context, "lastActionError")

NullSummary == [settled |-> "returned", changes |-> {}]

\* getPageChangeSummary(): null (no change listed), the changes listed, or
\* the TypeError of calling filter / some on a buttons property that is
\* undefined
getPageChangeSummary(cur, hist) ==
  IF cur = NoContext \/ Len(hist) = 0 THEN NullSummary
  ELSE LET previous == hist[Len(hist)]
           urlChange == IF cur.currentUrl # previous.currentUrl THEN {"url"} ELSE {}
           titleChange == IF cur.pageTitle # previous.pageTitle THEN {"title"} ELSE {}
           filterThrows == \/ ~cur.buttons.defined
                           \/ cur.buttons.sel # {} /\ ~previous.buttons.defined
           newButtons == cur.buttons.sel \ previous.buttons.sel
           buttonChange == IF newButtons # {} THEN {"buttons"} ELSE {}
           errorChange == IF Truthy(lastActionError(cur)) THEN {"error"} ELSE {}
       IN IF filterThrows THEN [settled |-> "threw", changes |-> urlChange \cup titleChange]
          ELSE [settled |-> "returned",
                changes |-> urlChange \cup titleChange \cup buttonChange \cup errorChange]

\* createContextSummary(options): the description of the current snapshot,
\* which always has its 'Current Page', 'URL' and 'Domain' lines, or the text
\* that says there is no snapshot; never the empty string
createContextSummary(cur) ==
  IF cur = NoContext THEN "No browser context available."
  ELSE "Current Page, URL, Domain"

(* ------------------------ BrowserToolExecutor -------------------------- *)
NoCall == [id |-> <<0, 0>>, name |-> "none", args |-> NoArguments]

\* a BrowserToolResult; data is the kind of value it carries and formData the
\* per-field map in it, if any; callId, initTried, driverReached and filled
\* are history fields: which call produced it, whether initialize() and a
\* driver primitive were invoked on its way, what fillForm reported per field
NoResult == [success |-> FALSE, kind |-> "none", data |-> "none", formData |-> <<>>,
             callId |-> <<0, 0>>, initTried |-> FALSE, driverReached |-> FALSE,
             filled |-> <<>>]

MkResult(call, success, kind, initTried, driverReached) ==
  [success |-> success, kind |-> kind, data |-> "none", formData |-> <<>>,
   callId |-> call.id, initTried |-> initTried, driverReached |-> driverReached,
   filled |-> <<>>]

\* the selector string an argument shape stands for
SelectorOf(kind) ==
  CASE kind = "valid" -> "#b1"
    [] kind = "nomatch" -> "#nomatch"
    [] OTHER -> "42"

\* Object.entries(formData) of the fillForm call a handler makes: the one
\* selector of a type call, the keys of the fields of a fill_form call
FormSelectors(call) ==
  IF call.name = "type" THEN {SelectorOf(call.args.vals["selector"])}
  ELSE IF call.name = "fill_form" THEN {"#f1", "#f2", "#f3"}
  ELSE {}

\* what the page allows: a selector that matches nothing never resolves, and
\* page.type of a value that is not a string throws
CanResolve(call, resolves) ==
  \A sel \in FormSelectors(call) :
    resolves[sel] =>
      /\ sel \notin {"#nomatch", "42"}
      /\ call.name = "type" => call.args.vals["text"] = "valid"
      /\ call.name = "fill_form" => call.args.vals["fields"] = "valid"

\* the switch of executeTool and the argument check at the head of a handler:
\* where the call stands after the synchronous part of the dispatch
Dispatch(call, initTried) ==
  IF call.name \notin BROWSER_TOOLS
    THEN [pc |-> "toolret", result |-> MkResult(call, FALSE, "unknown", initTried, FALSE)]
  ELSE IF ~call.args.defined /\ call.name # "get_page_info"
    THEN [pc |-> "toolret", result |-> MkResult(call, FALSE, "threw", initTried, FALSE)]
  ELSE IF HandlerRejects(call.name, call.args.vals)
    THEN [pc |-> "toolret", result |-> MkResult(call, FALSE, "badargs", initTried, FALSE)]
  ELSE IF HandlerThrows(call.name, call.args.vals)
    THEN [pc |-> "toolret", result |-> MkResult(call, FALSE, "threw", initTried, FALSE)]
  ELSE [pc |-> "driver", result |-> MkResult(call, FALSE, "pending", initTried, TRUE)]

EnterExecuteToolReadyFirst(call, options, ready) ==
  IF ~ready
    THEN [pc |-> "init", result |-> MkResult(call, FALSE, "pending", TRUE, FALSE)]
  ELSE IF ~canExecuteTool(call.name, SafetyOf(call.name), options)
    THEN [pc |-> "toolret", result |-> MkResult(call, FALSE, "gated", FALSE, FALSE)]
  ELSE Dispatch(call, FALSE)

\* executeTool up to its first await: the safety gate, then isReady()
EnterExecuteTool(call, options, ready) ==
  IF ~canExecuteTool(call.name, SafetyOf(call.name), options)
    THEN [pc |-> "toolret", result |-> MkResult(call, FALSE, "gated", FALSE, FALSE)]
  ELSE IF ~ready
    THEN [pc |-> "init", result |-> MkResult(call, FALSE, "pending", TRUE, FALSE)]
  ELSE Dispatch(call, FALSE)

(* ---------------------------- BrowserAgent ----------------------------- *)
\* response.content || 'I understand. Let me help you with that.': the text of
\* the first reply, whatever it is
InitialText == "initial text"
FollowUpFailedText == "Actions completed successfully."
ErrorText == "I encountered an error. Please try again."

NoOptions == [serviceType |-> "none", pageId |-> "none", autoConfirm |-> FALSE,
              safetyLevel |-> Undefined, updateContext |-> FALSE]
NoResponse == [toolCalls |-> <<>>]
NoAgentResponse == [settled |-> "pending", message |-> "", hasToolResults |-> FALSE,
                    toolResults |-> <<>>, contextUpdate |-> FALSE]
\* the reply of the agent:update-context handler; options, infoOk and elemOk
\* are history fields: what the extraction was called with and met
NoIpc == [settled |-> "none", success |-> FALSE, context |-> NoContext,
          options |-> "object", page |-> NoPage, infoOk |-> TRUE, elemOk |-> TRUE]
NoSys == [appended |-> FALSE, first |-> FALSE, extracted |-> "none", previous |-> "none",
          service |-> "none"]

BlankTurn ==
  [direct |-> FALSE, threw |-> FALSE, conv |-> 0, options |-> NoOptions, usedTools |-> FALSE, response |-> NoResponse,
   execOptions |-> NoOptions, call |-> NoCall, result |-> NoResult, toolResults |-> <<>>, started |-> <<>>,
   request |-> <<>>, followUpRequest |-> <<>>, followUpCalls |-> 0,
   followUpResponse |-> NoResponse,
   agentResponse |-> NoAgentResponse, sys |-> NoSys, ipc |-> NoIpc,
   waited |-> 0]

\* an AIMessage: its role, the ids of its toolCalls, its toolCallId; the text
\* of a message is left out of the stored history
Msg(role, toolCalls, toolCallId) ==
  [role |-> role, toolCalls |-> toolCalls, toolCallId |-> toolCallId]

\* service.supportsToolCalling(): OpenAIService and ClaudeService return true,
\* GeminiService does not define the method and the call throws a TypeError
supportsToolCalling(serviceType) ==
  IF serviceType \in {"openai", "claude"} THEN "true" ELSE "throws"

\* getToolsForService(serviceType).length > 0
hasTools(serviceType) == serviceType \in {"openai", "claude"}

\* AIManager.getService(serviceType) over the services registered at the call
getService(registered, serviceType) ==
  IF serviceType \in registered THEN serviceType ELSE "null"

\* hasContextChanged(conversation, context): <<returned value, conversation.currentUrl after>>
hasContextChanged(conversation, context) ==
  IF ~Truthy(conversation.currentUrl) THEN <<TRUE, context.currentUrl>>
  ELSE IF conversation.currentUrl # context.currentUrl THEN <<TRUE, context.currentUrl>>
  ELSE <<FALSE, conversation.currentUrl>>

\* a catch clause that lets the failure escape
catchRethrows ==
  [settled |-> "rejected", message |-> ErrorText, hasToolResults |-> FALSE,
   toolResults |-> <<>>, contextUpdate |-> FALSE]

\* the catch clause of sendMessage
catchResponse ==
  [settled |-> "resolved", message |-> ErrorText, hasToolResults |-> TRUE,
   toolResults |-> <<>>, contextUpdate |-> FALSE]

\* formatToolResult(result): the text of the tool message, or "throws" where
\* JSON.stringify(result.data) meets a BigInt
formatToolResult(result) ==
  IF ~result.success THEN "error text"
  ELSE IF result.data = "none" THEN "message"
  ELSE IF result.data = "bigint" THEN "throws"
  ELSE "message and result"

\* the index of the first result whose formatting throws, 0 when none does
firstThrowing(toolResults) ==
  LET bad == {i \in 1..Len(toolResults) : formatToolResult(toolResults[i]) = "throws"}
  IN IF bad = {} THEN 0 ELSE CHOOSE i \in bad : \A j \in bad : i <= j

\* the messages appended after a tool batch: the assistant message with its
\* tool calls, then one tool message per call, up to the call whose result
\* does not format (lines 155-173)
batchMessages(toolCalls, toolResults) ==
  LET stop == firstThrowing(toolResults)
      upto == IF stop = 0 THEN Len(toolCalls) ELSE stop - 1
  IN <<Msg("assistant", [i \in 1..Len(toolCalls) |-> toolCalls[i].id], Undefined)>>
     \o [i \in 1..upto |-> Msg("tool", <<>>, toolCalls[i].id)]

\* toolResults.some(r => r.success)
someSucceeded(toolResults) == \E i \in 1..Len(toolResults) : toolResults[i].success

\* a follow-up call that is handed the history as it was before the batch
followUpMessagesStale(before, after) == before

\* the messages argument of getFollowUpResponse: conversation.messages as it
\* stands once the batch has been appended
followUpMessages(before, after) == after


(* ----------------------------- inputs ---------------------------------- *)
\* the orchestration runs: the caller grants the level 'dangerous' and leaves
\* autoConfirm unset; a backend reply carries calls of evaluate_script, which
\* the gate lets through, and of click, which it refuses ('moderate' <=
\* 'dangerous' is false for strings)
AgentToolNames == {"click", "evaluate_script"}
AgentServices == {"openai", "gemini"}
AgentOptions ==
  {[serviceType |-> s, pageId |-> p, autoConfirm |-> FALSE, safetyLevel |-> "dangerous",
    updateContext |-> FALSE] : s \in AgentServices, p \in PageIds}

Batches(t) ==
  UNION {{[i \in 1..n |-> [id |-> <<t, i>>, name |-> f[i], args |-> ValidArgs(f[i])]] :
             f \in [1..n -> AgentToolNames]} : n \in 0..MaxBatch}

\* whether a script evaluated on the page succeeds: it fails on a missing page
ScriptOk(page) == page # NoPage

\* what page.evaluate hands back for the script of an evaluate_script call: a
\* value JSON can carry, or a BigInt
ScriptValues == {"json", "bigint"}

(* ------------------------------ Init ----------------------------------- *)
NoSummaryCall == [content |-> <<>>, maxLength |-> [given |-> FALSE, value |-> 0],
                  state |-> "none", result |-> <<>>]

NoHttpCall == [service |-> "none", method |-> "none", state |-> "idle",
               event |-> [kind |-> "none", status |-> 0, code |-> "none"],
               raised |-> "none"]

NoWireCall == [service |-> "none", messages |-> <<>>, state |-> "none", wire |-> <<>>]

\* the services the rate limiter is configured for, and the callers of
\* recordRequest that can be in flight together
LimitedServices == {"test", "strict"}
RecordIds == {1, 2, 3}
NoRecording == [service |-> "none", state |-> "idle", isLimited |-> FALSE, recorded |-> FALSE]

InitLimiter ==
  /\ requests = [s \in LimitedServices |-> <<>>]
  /\ recording = [r \in RecordIds |-> NoRecording]

\* no cleanup() has been called
NoCleaning == [state |-> "idle", toClose |-> {}, pageFailed |-> {},
               browserFailed |-> FALSE, settled |-> "none"]

InitServices ==
  /\ cleaning = NoCleaning
  /\ summaryCall = NoSummaryCall
  /\ httpCall = NoHttpCall
  /\ wireCall = NoWireCall
  /\ InitLimiter

InitAgent ==
  /\ conversations = [c \in ConvIds |-> 0]
  /\ heap = <<>>
  /\ isInitialized = FALSE
  /\ browser = 0
  /\ launches = 0
  /\ pages = [p \in AllPageIds |-> NoPage]
  /\ currentContext = NoContext
  /\ contextHistory = <<>>
  /\ pc = [t \in TurnIds |-> "idle"]
  /\ turn = [t \in TurnIds |-> BlankTurn]
  /\ now = 0

Init == InitAgent /\ InitServices

(* ------------------------- environment --------------------------------- *)
\* the host acts on the driver between calls, not in the middle of one
Quiescent == \A t \in TurnIds : pc[t] \in {"idle", "finished"}

\* PuppeteerManager.initialize() called by the host, success
HostInitialize ==
  /\ Quiescent
  /\ browser = 0
  /\ launches' = launches + 1
  /\ browser' = launches + 1
  /\ isInitialized' = TRUE
  /\ UNCHANGED serviceVars
  /\ UNCHANGED <<now, conversations, heap, pages, currentContext, contextHistory, pc, turn>>

\* PuppeteerManager.createPage(pageId): throws unless a browser exists
CreatePage(p) ==
  /\ Quiescent
  /\ browser # 0
  /\ pages[p] = NoPage
  /\ pages' = [pages EXCEPT ![p] = BlankUrl]
  /\ UNCHANGED serviceVars
  /\ UNCHANGED <<now, conversations, heap, isInitialized, browser, launches,
                 currentContext, contextHistory, pc, turn>>

(* ------------------- sendMessage: the tool batch ----------------------- *)
\* the options executeToolCalls passes to executeTool
executionOptions(options) == [options EXCEPT !.updateContext = TRUE]

FinishBatchDroppingHistory(t, tr) ==
  LET before == heap[tr.conv].messages
      msgs == batchMessages(tr.response.toolCalls, tr.toolResults)
      withResults == [tr EXCEPT !.agentResponse.toolResults = tr.toolResults]
  IN /\ heap' = [heap EXCEPT ![tr.conv].messages = msgs]
     /\ IF firstThrowing(tr.toolResults) # 0
          THEN /\ turn' = [turn EXCEPT ![t] = [tr EXCEPT !.threw = TRUE,
                                                         !.agentResponse = catchResponse]]
               /\ pc' = [pc EXCEPT ![t] = "done"]
        ELSE IF someSucceeded(tr.toolResults)
          THEN /\ turn' = [turn EXCEPT ![t] = [withResults EXCEPT
                                                 !.followUpRequest = followUpMessages(before, msgs),
                                                 !.followUpCalls = @ + 1]]
               /\ pc' = [pc EXCEPT ![t] = "followup"]
          ELSE /\ turn' = [turn EXCEPT ![t] = withResults]
               /\ pc' = [pc EXCEPT ![t] = "postctx"]

\* lines 152-188 of sendMessage once executeToolCalls has returned: append the
\* batch to the conversation (a result that does not format throws into the
\* catch clause), then the follow-up call if a result succeeded, else straight
\* to the context refresh
FinishBatch(t, tr) ==
  LET before == heap[tr.conv].messages
      msgs == before \o batchMessages(tr.response.toolCalls, tr.toolResults)
      withResults == [tr EXCEPT !.agentResponse.toolResults = tr.toolResults]
  IN /\ heap' = [heap EXCEPT ![tr.conv].messages = msgs]
     /\ IF firstThrowing(tr.toolResults) # 0
          THEN /\ turn' = [turn EXCEPT ![t] = [tr EXCEPT !.threw = TRUE,
                                                         !.agentResponse = catchResponse]]
               /\ pc' = [pc EXCEPT ![t] = "done"]
        ELSE IF someSucceeded(tr.toolResults)
          THEN /\ turn' = [turn EXCEPT ![t] = [withResults EXCEPT
                                                 !.followUpRequest = followUpMessages(before, msgs),
                                                 !.followUpCalls = @ + 1]]
               /\ pc' = [pc EXCEPT ![t] = "followup"]
          ELSE /\ turn' = [turn EXCEPT ![t] = withResults]
               /\ pc' = [pc EXCEPT ![t] = "postctx"]

\* a loop that stops at the first failed call
ToolReturnedBreakOnFailure(t, tr) ==
  LET pushed == [tr EXCEPT !.toolResults = Append(@, tr.result)]
  IN IF Len(tr.response.toolCalls) > 1 /\ tr.result.success
       THEN /\ turn' = [turn EXCEPT ![t] = pushed]
            /\ pc' = [pc EXCEPT ![t] = "delay"]
            /\ UNCHANGED heap
       ELSE FinishBatch(t, pushed)

\* executeTool has returned (tr.result) to the loop of executeToolCalls:
\* results.push(result), then the settling delay when the batch has more than
\* one call, else the loop is over
ToolReturned(t, tr) ==
  LET pushed == [tr EXCEPT !.toolResults = Append(@, tr.result)]
  IN IF Len(tr.response.toolCalls) > 1
       THEN /\ turn' = [turn EXCEPT ![t] = pushed]
            /\ pc' = [pc EXCEPT ![t] = "delay"]
            /\ UNCHANGED heap
       ELSE FinishBatch(t, pushed)

\* executeTool returns its result to whoever called it
ExecReturn(t, tr) ==
  IF tr.direct
    THEN /\ turn' = [turn EXCEPT ![t] = tr]
         /\ pc' = [pc EXCEPT ![t] = "returned"]
         /\ UNCHANGED heap
    ELSE ToolReturned(t, tr)

\* one iteration of the loop of executeToolCalls: call i is handed to
\* executeTool, which runs up to its first await
BeginCall(t, tr, i) ==
  LET call == tr.response.toolCalls[i]
      f == EnterExecuteTool(call, executionOptions(tr.options), isReady)
      entered == [tr EXCEPT !.execOptions = executionOptions(tr.options),
                            !.call = call, !.result = f.result,
                            !.started = Append(@, call.id)]
  IN IF f.pc = "toolret"
       THEN ToolReturned(t, entered)
       ELSE /\ turn' = [turn EXCEPT ![t] = entered]
            /\ pc' = [pc EXCEPT ![t] = f.pc]
            /\ UNCHANGED heap

(* --------------------------- sendMessage ------------------------------- *)
\* sendMessage up to the await of toolExecutor.updateContext:
\* createOrGetConversation(conversationId, options.pageId)
StartTurn(t, id, options) ==
  /\ pc[t] = "idle"
  /\ \A s \in TurnIds : s < t => pc[s] # "idle"
  /\ id = "c2" => conversations["c1"] # 0
  /\ LET existing == conversations[id] # 0
         ref == IF existing THEN conversations[id] ELSE Len(heap) + 1
         base == IF existing THEN heap
                 ELSE Append(heap, [id |-> id, messages |-> <<>>, currentUrl |-> Undefined,
                                    pageId |-> options.pageId, lastActivity |-> now,
                                    seenUrl |-> "none", cleared |-> "no",
                                    inFlight |-> 0, overlapped |-> FALSE])
     IN /\ heap' = [base EXCEPT ![ref].lastActivity = now,
                                ![ref].inFlight = @ + 1,
                                ![ref].overlapped = @ \/ base[ref].inFlight > 0]
        /\ conversations' = [conversations EXCEPT ![id] = ref]
        /\ turn' = [turn EXCEPT ![t].conv = ref, ![t].options = options]
  /\ pc' = [pc EXCEPT ![t] = "ctx"]
  /\ UNCHANGED serviceVars
  /\ UNCHANGED <<now, isInitialized, browser, launches, pages, currentContext, contextHistory>>

\* from the settled context snapshot to the provider call (lines 83-124), or
\* to the catch clause when the service is not available or does not answer
\* supportsToolCalling()
ContextDone(t) ==
  /\ pc[t] = "ctx"
  /\ \E registered \in SUBSET {turn[t].options.serviceType} :
       LET page == pages[turn[t].options.pageId]
           service == getService(registered, turn[t].options.serviceType)
           context == extractContext(page, ScriptOk(page), ScriptOk(page))
           upd == updateContext(currentContext, contextHistory, context)
           conversation == heap[turn[t].conv]
           first == Len(conversation.messages) = 0
           changed == IF first THEN <<TRUE, conversation.currentUrl>>
                      ELSE hasContextChanged(conversation, context)
           sysMsgs == IF changed[1] THEN <<Msg("system", <<>>, Undefined)>> ELSE <<>>
           msgs == conversation.messages \o sysMsgs \o <<Msg("user", <<>>, Undefined)>>
           sys == [appended |-> changed[1], first |-> first,
                   extracted |-> context.currentUrl,
                   previous |-> conversation.seenUrl,
                   service |-> service]
       IN /\ currentContext' = upd[1]
          /\ contextHistory' = upd[2]
          /\ heap' = [heap EXCEPT ![turn[t].conv].messages = msgs,
                                  ![turn[t].conv].currentUrl = changed[2],
                                  ![turn[t].conv].seenUrl = context.currentUrl]
          /\ IF service = "null" \/ supportsToolCalling(service) = "throws"
               THEN /\ turn' = [turn EXCEPT ![t].sys = sys, ![t].threw = TRUE,
                                             ![t].agentResponse = catchResponse]
                    /\ pc' = [pc EXCEPT ![t] = "done"]
               ELSE /\ turn' = [turn EXCEPT ![t].sys = sys,
                                  ![t].usedTools = supportsToolCalling(service) = "true"
                                                   /\ hasTools(service),
                                  ![t].request = msgs]
                    /\ pc' = [pc EXCEPT ![t] = "provider"]
  /\ UNCHANGED serviceVars
  /\ UNCHANGED <<now, conversations, isInitialized, browser, launches, pages>>

\* the first provider call settles: a typed failure, which the catch clause
\* turns into the error response, or a reply (lines 139-196)
ProviderReply(t) ==
  /\ pc[t] = "provider"
  /\ \/ /\ turn' = [turn EXCEPT ![t].threw = TRUE, ![t].agentResponse = catchResponse]
        /\ pc' = [pc EXCEPT ![t] = "done"]
        /\ UNCHANGED heap
     \/ \E toolCalls \in (IF turn[t].usedTools THEN Batches(t) ELSE {<<>>}) :
          LET tr == [turn[t] EXCEPT
                       !.request = <<>>, !.sys = NoSys,
                       !.response = [toolCalls |-> toolCalls],
                       !.agentResponse = [settled |-> "pending",
                                          message |-> InitialText,
                                          hasToolResults |-> TRUE,
                                          toolResults |-> <<>>,
                                          contextUpdate |-> FALSE]]
          IN IF Len(toolCalls) > 0
               THEN BeginCall(t, tr, 1)
               ELSE /\ heap' = [heap EXCEPT ![tr.conv].messages =
                                  Append(@, Msg("assistant", <<>>, Undefined)),
                                                ![tr.conv].lastActivity = now]
                    /\ turn' = [turn EXCEPT ![t] = [tr EXCEPT !.agentResponse.settled = "resolved"]]
                    /\ pc' = [pc EXCEPT ![t] = "done"]
  /\ UNCHANGED serviceVars
  /\ UNCHANGED <<now, conversations, isInitialized, browser, launches, pages,
                 currentContext, contextHistory>>

\* puppeteerManager.initialize() settles inside executeTool
InitDone(t) ==
  /\ pc[t] = "init"
  /\ \E ok \in BOOLEAN :
       IF ok
         THEN LET f == Dispatch(turn[t].call, TRUE)
                  tr == [turn[t] EXCEPT !.result = f.result]
              IN /\ launches' = launches + 1
                 /\ browser' = launches + 1
                 /\ isInitialized' = TRUE
                 /\ IF f.pc = "toolret" THEN ExecReturn(t, tr)
                    ELSE /\ turn' = [turn EXCEPT ![t] = tr]
                         /\ pc' = [pc EXCEPT ![t] = f.pc]
                         /\ UNCHANGED heap
         ELSE /\ ExecReturn(t, [turn[t] EXCEPT !.result =
                                  MkResult(turn[t].call, FALSE, "initfail", TRUE, FALSE)])
              /\ UNCHANGED <<launches, browser, isInitialized>>
  /\ UNCHANGED serviceVars
  /\ UNCHANGED <<now, conversations, pages, currentContext, contextHistory>>

\* const { selector, timeout = 5000 } = args
defaultTimeout == 5000

\* the number the timeout argument of a wait_for_element call stands for
TimeoutOf(kind) ==
  CASE kind = "absent" -> defaultTimeout
    [] kind = "zero" -> 0
    [] OTHER -> 1000

\* a click or wait_for_element call on a selector that matches no element
NeverMatches(call) ==
  /\ call.name \in {"click", "wait_for_element"}
  /\ call.args.vals["selector"] \in {"nomatch", "wrongtype"}

\* the script of executeWaitForElement found no element and is waiting: the
\* observer is registered and setTimeout(..., timeout) is pending
Armed(t) ==
  /\ pc[t] = "driver"
  /\ turn[t].call.name = "wait_for_element"
  /\ pages[turn[t].execOptions.pageId] # NoPage
  /\ turn[t].call.args.vals["selector"] = "nomatch"
  /\ turn[t].call.args.vals["timeout"] # "wrongtype"
  /\ turn[t].result.kind = "pending"

\* time passes in the page until the delay of the pending timer is over
TimeoutElapses(t) ==
  /\ Armed(t)
  /\ turn[t].waited < TimeoutOf(turn[t].call.args.vals["timeout"])
  /\ turn' = [turn EXCEPT ![t].waited = TimeoutOf(turn[t].call.args.vals["timeout"])]
  /\ UNCHANGED serviceVars
  /\ UNCHANGED <<now, conversations, heap, isInitialized, browser, launches, pages,
                 currentContext, contextHistory, pc>>

WaitTimerFiresSilently(t) ==
  /\ Armed(t)
  /\ turn[t].waited >= TimeoutOf(turn[t].call.args.vals["timeout"])
  /\ turn' = [turn EXCEPT ![t].result.kind = "timeout"]
  /\ UNCHANGED serviceVars
  /\ UNCHANGED <<now, conversations, heap, isInitialized, browser, launches, pages,
                 currentContext, contextHistory, pc>>

\* the timer callback of the script: the observer is disconnected and the
\* promise rejected; evaluateScript catches the rejection and the handler
\* returns the failure
WaitTimerFires(t) ==
  /\ Armed(t)
  /\ turn[t].waited >= TimeoutOf(turn[t].call.args.vals["timeout"])
  /\ ExecReturn(t, [turn[t] EXCEPT !.result =
                      MkResult(turn[t].call, FALSE, "timeout", turn[t].result.initTried, TRUE)])
  /\ UNCHANGED serviceVars
  /\ UNCHANGED <<now, conversations, isInitialized, browser, launches, pages,
                 currentContext, contextHistory>>

\* the handler's result once its driver primitive has settled; value is what
\* the script of an evaluate_script call evaluated to
handlerResult(call, page, ok, value, resolves, initTried) ==
  IF call.name = "get_page_info"
    THEN LET context == extractContext(page, ok, ok)
         IN IF context.buttons.defined
              THEN MkResult(call, TRUE, "driver", initTried, TRUE)
              ELSE MkResult(call, FALSE, "threw", initTried, TRUE)
  ELSE IF call.name = "evaluate_script"
    THEN LET result == evaluateScript(page, ok, value)
         IN [MkResult(call, result.success, "driver", initTried, TRUE)
               EXCEPT !.data = IF result.success THEN result.data.result ELSE "none"]
  ELSE IF call.name \in {"type", "fill_form"}
    THEN LET result == fillForm(page, resolves)
         IN [MkResult(call, result.success, "driver", initTried, TRUE)
               EXCEPT !.filled = result.data.formData]
    ELSE MkResult(call, PrimitiveSucceeds(PrimitiveOf(call.name), page, ok), "driver",
                  initTried, TRUE)

\* the driver primitive awaited by a handler settles
DriverDone(t) ==
  /\ pc[t] = "driver"
  /\ \E ok \in BOOLEAN, value \in ScriptValues,
        resolves \in [FormSelectors(turn[t].call) -> BOOLEAN] :
       LET pid == turn[t].execOptions.pageId
           page == pages[pid]
           result == handlerResult(turn[t].call, page, ok, value, resolves,
                                   turn[t].result.initTried)
           tr == [turn[t] EXCEPT !.result = result]
       IN /\ page = NoPage => ok
          /\ FormSelectors(turn[t].call) # {} => ok /\ CanResolve(turn[t].call, resolves)
          /\ (page # NoPage /\ NeverMatches(turn[t].call)) => ~ok
          /\ value = "bigint" => turn[t].call.name = "evaluate_script" /\ result.success
          /\ pages' = IF turn[t].call.name = "navigate" /\ result.success
                        THEN [pages EXCEPT ![pid] = NavigatedUrl] ELSE pages
          /\ IF result.success /\ turn[t].execOptions.updateContext
               THEN /\ turn' = [turn EXCEPT ![t] = tr]
                    /\ pc' = [pc EXCEPT ![t] = "toolctx"]
                    /\ UNCHANGED heap
               ELSE ExecReturn(t, tr)
  /\ UNCHANGED serviceVars
  /\ UNCHANGED <<now, conversations, isInitialized, browser, launches,
                 currentContext, contextHistory>>

\* the context refresh of executeTool after a successful action settles
ToolCtxDone(t) ==
  /\ pc[t] = "toolctx"
  /\ LET page == pages[turn[t].execOptions.pageId]
         upd == updateContext(currentContext, contextHistory,
                              extractContext(page, ScriptOk(page), ScriptOk(page)))
     IN /\ currentContext' = upd[1]
        /\ contextHistory' = upd[2]
  /\ ExecReturn(t, turn[t])
  /\ UNCHANGED serviceVars
  /\ UNCHANGED <<now, conversations, isInitialized, browser, launches, pages>>

\* the 500 ms settling delay has elapsed: the next call, or the loop is over
DelayDone(t) ==
  /\ pc[t] = "delay"
  /\ IF Len(turn[t].toolResults) < Len(turn[t].response.toolCalls)
       THEN BeginCall(t, turn[t], Len(turn[t].toolResults) + 1)
       ELSE FinishBatch(t, turn[t])
  /\ UNCHANGED serviceVars
  /\ UNCHANGED <<now, conversations, isInitialized, browser, launches, pages,
                 currentContext, contextHistory>>

\* the tool calls a follow-up response may carry
FollowUpBatches(t) == {b \in Batches(t) : Len(b) <= 1}

FollowUpSettlesAppendingCalls(t, batches) ==
  /\ pc[t] = "followup"
  /\ \E content \in {"", "follow-up text", FollowUpFailedText},
        toolCalls \in batches :
       /\ turn' = [turn EXCEPT ![t].followUpRequest = <<>>,
                               ![t].followUpResponse = [toolCalls |-> toolCalls],
                               ![t].agentResponse.message = IF content # "" THEN content ELSE @]
       /\ heap' = [heap EXCEPT ![turn[t].conv].messages =
                     IF Len(toolCalls) > 0
                       THEN Append(@, Msg("assistant", <<toolCalls[1].id>>, Undefined))
                       ELSE @]
  /\ pc' = [pc EXCEPT ![t] = "postctx"]
  /\ UNCHANGED serviceVars
  /\ UNCHANGED <<now, conversations, isInitialized, browser, launches, pages,
                 currentContext, contextHistory>>

\* getFollowUpResponse settles (lines 176-181) with the reply's text or the
\* fixed text of its catch: only the content of the follow-up response is
\* read, the tool calls it carries are left alone
FollowUpSettles(t, batches) ==
  /\ pc[t] = "followup"
  /\ \E content \in {"", "follow-up text", FollowUpFailedText},
        toolCalls \in batches :
       turn' = [turn EXCEPT ![t].followUpRequest = <<>>,
                            ![t].followUpResponse = [toolCalls |-> toolCalls],
                            ![t].agentResponse.message = IF content # "" THEN content ELSE @]
  /\ pc' = [pc EXCEPT ![t] = "postctx"]
  /\ UNCHANGED serviceVars
  /\ UNCHANGED <<now, conversations, heap, isInitialized, browser, launches, pages,
                 currentContext, contextHistory>>

\* a follow-up response without tool calls
FollowUpReply(t) == FollowUpSettles(t, {<<>>})

\* a follow-up response with or without tool calls
FollowUpReplyWithCalls(t) == FollowUpSettles(t, FollowUpBatches(t))

\* the context refresh after the batch settles (lines 183-200); the turn
\* resolves, the follow-up response went out of scope with its block
PostContextDone(t) ==
  /\ pc[t] = "postctx"
  /\ LET page == pages[turn[t].options.pageId]
         upd == updateContext(currentContext, contextHistory,
                              extractContext(page, ScriptOk(page), ScriptOk(page)))
     IN /\ currentContext' = upd[1]
        /\ contextHistory' = upd[2]
  /\ turn' = [turn EXCEPT ![t].agentResponse.settled = "resolved",
                          ![t].agentResponse.contextUpdate =
                             Truthy(createContextSummary(currentContext')),
                          ![t].followUpResponse = NoResponse]
  /\ pc' = [pc EXCEPT ![t] = "done"]
  /\ heap' = [heap EXCEPT ![turn[t].conv].lastActivity = now]
  /\ UNCHANGED serviceVars
  /\ UNCHANGED <<now, conversations, isInitialized, browser, launches, pages>>

\* a return that stores the conversation object back under its id
ReturnReRegisters(t) ==
  /\ pc[t] = "done"
  /\ pc' = [pc EXCEPT ![t] = "finished"]
  /\ heap' = [heap EXCEPT ![turn[t].conv].inFlight = @ - 1]
  /\ conversations' = [conversations EXCEPT ![heap[turn[t].conv].id] = turn[t].conv]
  /\ turn' = [turn EXCEPT ![t] = BlankTurn]
  /\ UNCHANGED serviceVars
  /\ UNCHANGED <<now, isInitialized, browser, launches, pages,
                 currentContext, contextHistory>>

\* the caller receives the settled response; the locals of the call are gone
Return(t) ==
  /\ pc[t] = "done"
  /\ pc' = [pc EXCEPT ![t] = "finished"]
  /\ heap' = [heap EXCEPT ![turn[t].conv].inFlight = @ - 1]
  /\ turn' = [turn EXCEPT ![t] = BlankTurn]
  /\ UNCHANGED serviceVars
  /\ UNCHANGED <<now, conversations, isInitialized, browser, launches, pages,
                 currentContext, contextHistory>>

(* ------------------------ conversation store --------------------------- *)
\* getActiveConversations keeps the conversations younger than 24 hours
maxAge == 24 * 60 * 60 * 1000

\* the clock advances in steps of half a day
ClockStep == maxAge \div 2

\* getConversation(id): the conversation object, or null
getConversation(id) == IF conversations[id] # 0 THEN conversations[id] ELSE "null"

\* Array.from(this.conversations.values())
storedConversations == {conversations[id] : id \in ConvIds} \ {0}

\* sort((a, b) => b.lastActivity - a.lastActivity): latest first, equal
\* stamps in the order of insertion into the map
RECURSIVE sortByLastActivity(_)
sortByLastActivity(refs) ==
  IF refs = {} THEN <<>>
  ELSE LET first == CHOOSE r \in refs : \A o \in refs :
                      \/ heap[o].lastActivity < heap[r].lastActivity
                      \/ heap[o].lastActivity = heap[r].lastActivity /\ r <= o
       IN <<first>> \o sortByLastActivity(refs \ {first})

getActiveConversations ==
  sortByLastActivity({r \in storedConversations : now - heap[r].lastActivity < maxAge})

\* a clear that empties the whole store
clearEveryConversation(store, id) == [c \in DOMAIN store |-> 0]

\* clearConversation(id): this.conversations.delete(id)
clearConversation(store, id) == [store EXCEPT ![id] = 0]

\* (cleared is a history field of the object: "no" while it never was
\* cleared, "midbatch" when it was cleared while a turn on it was executing
\* its tool batch, else "yes")
ClearConversation(id) ==
  /\ conversations[id] # 0
  /\ conversations' = clearConversation(conversations, id)
  /\ heap' = [heap EXCEPT ![conversations[id]].cleared =
                 IF \E t \in TurnIds : /\ turn[t].conv = conversations[id]
                                       /\ pc[t] \in {"init", "driver", "toolctx", "delay"}
                   THEN "midbatch" ELSE "yes"]
  /\ UNCHANGED serviceVars
  /\ UNCHANGED <<isInitialized, browser, launches, pages, currentContext,
                 contextHistory, pc, turn, now>>

\* time passes
Tick ==
  /\ now < MaxTicks * ClockStep
  /\ now' = now + ClockStep
  /\ UNCHANGED serviceVars
  /\ UNCHANGED <<conversations, heap, isInitialized, browser, launches, pages,
                 currentContext, contextHistory, pc, turn>>

(* ------------------- executeTool called directly ---------------------- *)
DirectIds == {1}
DirectOptions ==
  {[serviceType |-> "none", pageId |-> p, autoConfirm |-> a, safetyLevel |-> g,
    updateContext |-> FALSE] : p \in PageIds, a \in BOOLEAN, g \in GrantLevels}
DirectCalls ==
  UNION {{[id |-> <<0, 1>>, name |-> n, args |-> k] : k \in ArgKinds(n)} : n \in ToolNames}

\* executeTool(toolCall, options) up to its first await, or to its return
DirectCall(t, call, options) ==
  /\ pc[t] = "idle"
  /\ LET f == EnterExecuteTool(call, options, isReady)
     IN /\ turn' = [turn EXCEPT ![t].direct = TRUE, ![t].execOptions = options,
                                ![t].call = call, ![t].result = f.result]
        /\ pc' = [pc EXCEPT ![t] = IF f.pc = "toolret" THEN "returned" ELSE f.pc]
  /\ UNCHANGED serviceVars
  /\ UNCHANGED <<now, conversations, heap, isInitialized, browser, launches, pages,
                 currentContext, contextHistory>>

\* the caller of executeTool receives the result
DirectReturn(t) ==
  /\ pc[t] = "returned"
  /\ pc' = [pc EXCEPT ![t] = "idle"]
  /\ turn' = [turn EXCEPT ![t] = BlankTurn]
  /\ UNCHANGED serviceVars
  /\ UNCHANGED <<now, conversations, heap, isInitialized, browser, launches, pages,
                 currentContext, contextHistory>>

(* ---------------- the agent:update-context handler --------------------- *)
\* context updates stored by the snapshot history of the runs explored
MaxUpdates == 2

\* ipcMain.handle('agent:update-context'): BrowserAgent.updateContext ->
\* BrowserToolExecutor.updateContext: the extraction, then the manager's
\* updateContext, then the reply
UpdateContext(t, p, options) ==
  /\ pc[t] = "idle"
  /\ Len(contextHistory) < MaxUpdates
  /\ \E infoOk \in BOOLEAN, elemOk \in BOOLEAN :
       LET page == pages[p]
           outcome == extractContextOutcome(page, options, infoOk, elemOk)
           upd == updateContext(currentContext, contextHistory, outcome.context)
       IN /\ page = NoPage => infoOk /\ elemOk
          /\ IF outcome.settled = "resolved"
               THEN /\ currentContext' = upd[1]
                    /\ contextHistory' = upd[2]
               ELSE UNCHANGED <<currentContext, contextHistory>>
          /\ turn' = [turn EXCEPT ![t].ipc =
                        [settled |-> outcome.settled,
                         success |-> outcome.settled = "resolved",
                         context |-> outcome.context, options |-> options,
                         page |-> page, infoOk |-> infoOk, elemOk |-> elemOk]]
          /\ pc' = [pc EXCEPT ![t] = "returned"]
  /\ UNCHANGED serviceVars
  /\ UNCHANGED <<now, conversations, heap, isInitialized, browser, launches, pages>>

(* ------------- the snapshot history over many updates ----------------- *)
\* snapshot objects extracted in the runs explored
MaxSnapshots == 12

\* the object extractContext returns: a new object per call, numbered in the
\* order of allocation
Snapshot(object, context) == [object |-> object, context |-> context]

\* snapshot objects allocated so far: the current one is the latest
allocated == IF currentContext = NoContext THEN 0 ELSE currentContext.object

\* BrowserToolExecutor.updateContext(pageId): the extraction returns a new
\* snapshot object, which the manager's updateContext makes current
UpdateContextObject(t, p) ==
  /\ pc[t] = "idle"
  /\ allocated < MaxSnapshots
  /\ \E elemOk \in BOOLEAN :
       LET page == pages[p]
           context == Snapshot(allocated + 1, extractContext(page, TRUE, elemOk))
           upd == updateContext(currentContext, contextHistory, context)
       IN /\ page = NoPage => elemOk
          /\ currentContext' = upd[1]
          /\ contextHistory' = upd[2]
  /\ pc' = [pc EXCEPT ![t] = "returned"]
  /\ UNCHANGED serviceVars
  /\ UNCHANGED <<now, conversations, heap, isInitialized, browser, launches, pages, turn>>

NextHistory ==
  \/ HostInitialize
  \/ \E p \in PageIds : CreatePage(p)
  \/ \E t \in DirectIds, p \in PageIds : UpdateContextObject(t, p)
  \/ \E t \in DirectIds : DirectReturn(t)

SpecHistory == Init /\ [][NextHistory]_vars

(* ------------- context updates of several page sessions --------------- *)
\* a snapshot object with the page session it was extracted from (a history
\* field: BrowserContext has no such property)
SessionSnapshot(session, object, context) ==
  [session |-> session, object |-> object, context |-> context]

\* BrowserToolExecutor.updateContext(pageId) for any page session: the one
\* contextManager of the executor takes the snapshot
UpdateContextOfSession(t, p) ==
  /\ pc[t] = "idle"
  /\ Len(contextHistory) < MaxUpdates
  /\ \E elemOk \in BOOLEAN :
       LET page == pages[p]
           context == SessionSnapshot(p, allocated + 1, extractContext(page, TRUE, elemOk))
           upd == updateContext(currentContext, contextHistory, context)
       IN /\ page = NoPage => elemOk
          /\ currentContext' = upd[1]
          /\ contextHistory' = upd[2]
  /\ pc' = [pc EXCEPT ![t] = "returned"]
  /\ UNCHANGED serviceVars
  /\ UNCHANGED <<now, conversations, heap, isInitialized, browser, launches, pages, turn>>

NextSessions ==
  \/ HostInitialize
  \/ \E p \in AllPageIds : CreatePage(p)
  \/ \E t \in DirectIds, p \in AllPageIds : UpdateContextOfSession(t, p)
  \/ \E t \in DirectIds : DirectReturn(t)

SpecSessions == Init /\ [][NextSessions]_vars

(* ------------------------ PuppeteerManager.cleanup ---------------------- *)
MaxLaunches == 3

\* the page ids registered in PuppeteerManager.pages
registered == {p \in AllPageIds : pages[p] # NoPage}

\* the part of cleanup() after the loop over the pages: pages.clear(), then
\* either the awaited browser.close() or, with no browser, the finally block
CleanupAfterPages(c) ==
  /\ pages' = [p \in AllPageIds |-> NoPage]
  /\ IF browser # 0
       THEN /\ cleaning' = [c EXCEPT !.state = "browser"]
            /\ UNCHANGED isInitialized
       ELSE /\ cleaning' = [c EXCEPT !.state = "done", !.settled = "resolved"]
            /\ isInitialized' = FALSE

\* cleanup() is called: it starts closing the first page, or goes on at once
\* when no page is registered
CleanupStart ==
  /\ cleaning.state = "idle"
  /\ IF registered # {}
       THEN /\ cleaning' = [NoCleaning EXCEPT !.state = "pages", !.toClose = registered]
            /\ UNCHANGED <<pages, isInitialized>>
       ELSE CleanupAfterPages(NoCleaning)
  /\ UNCHANGED <<summaryCall, httpCall, wireCall, requests, recording>>
  /\ UNCHANGED <<now, conversations, heap, browser, launches,
                 currentContext, contextHistory, pc, turn>>

\* the awaited page.close() of one page settles; a rejection is caught and
\* logged inside the loop, and the loop goes on with the next page
PageCloseSettles(p, ok) ==
  /\ cleaning.state = "pages"
  /\ p \in cleaning.toClose
  /\ LET c == [cleaning EXCEPT !.toClose = @ \ {p},
                               !.pageFailed = IF ok THEN @ ELSE @ \cup {p}]
     IN IF c.toClose # {}
          THEN /\ cleaning' = c
               /\ UNCHANGED <<pages, isInitialized>>
          ELSE CleanupAfterPages(c)
  /\ UNCHANGED <<summaryCall, httpCall, wireCall, requests, recording>>
  /\ UNCHANGED <<now, conversations, heap, browser, launches,
                 currentContext, contextHistory, pc, turn>>

\* as BrowserCloseSettles, with "this.browser = null" inside the try block of
\* browser.close(), so that a rejection skips it
BrowserCloseSettlesKeepingHandle(ok) ==
  /\ cleaning.state = "browser"
  /\ browser' = IF ok THEN 0 ELSE browser
  /\ isInitialized' = FALSE
  /\ cleaning' = [cleaning EXCEPT !.state = "done", !.settled = "resolved",
                                  !.browserFailed = ~ok]
  /\ UNCHANGED <<summaryCall, httpCall, wireCall, requests, recording>>
  /\ UNCHANGED <<now, conversations, heap, launches, pages,
                 currentContext, contextHistory, pc, turn>>

\* the awaited browser.close() settles; a rejection is caught and logged, the
\* handle is set to null either way, and the finally block ends the call
BrowserCloseSettles(ok) ==
  /\ cleaning.state = "browser"
  /\ browser' = 0
  /\ isInitialized' = FALSE
  /\ cleaning' = [cleaning EXCEPT !.state = "done", !.settled = "resolved",
                                  !.browserFailed = ~ok]
  /\ UNCHANGED <<summaryCall, httpCall, wireCall, requests, recording>>
  /\ UNCHANGED <<now, conversations, heap, launches, pages,
                 currentContext, contextHistory, pc, turn>>

\* the caller of cleanup() has its result
CleanupReturn ==
  /\ cleaning.state = "done"
  /\ cleaning' = [cleaning EXCEPT !.state = "idle"]
  /\ UNCHANGED <<summaryCall, httpCall, wireCall, requests, recording>>
  /\ UNCHANGED agentVars

\* PuppeteerManager.closePage(pageId) of a registered page: the page leaves
\* the map when page.close() resolves, and stays when it rejects
ClosePage(p, ok) ==
  /\ cleaning.state = "idle"
  /\ pages[p] # NoPage
  /\ pages' = IF ok THEN [pages EXCEPT ![p] = NoPage] ELSE pages
  /\ UNCHANGED serviceVars
  /\ UNCHANGED <<now, conversations, heap, isInitialized, browser, launches,
                 currentContext, contextHistory, pc, turn>>

\* the host starts browsers, opens pages and cleans up, one call at a time
NextCleanup ==
  \/ \E p \in AllPageIds, ok \in BOOLEAN : ClosePage(p, ok)
  \/ cleaning.state = "idle" /\ launches < MaxLaunches /\ HostInitialize
  \/ \E p \in AllPageIds : cleaning.state = "idle" /\ CreatePage(p)
  \/ CleanupStart
  \/ \E p \in AllPageIds, ok \in BOOLEAN : PageCloseSettles(p, ok)
  \/ \E ok \in BOOLEAN : BrowserCloseSettles(ok)
  \/ CleanupReturn

SpecCleanup == Init /\ [][NextCleanup]_vars

NextContext ==
  \/ HostInitialize
  \/ \E p \in PageIds : CreatePage(p)
  \/ \E t \in DirectIds, p \in PageIds, options \in ContextOptions :
        UpdateContext(t, p, options)
  \/ \E t \in DirectIds : DirectReturn(t)

SpecContext == Init /\ [][NextContext]_vars

NextTool ==
  \/ HostInitialize
  \/ \E p \in PageIds : CreatePage(p)
  \/ \E t \in DirectIds, call \in DirectCalls, options \in DirectOptions :
        DirectCall(t, call, options)
  \/ \E t \in DirectIds : InitDone(t)
  \/ \E t \in DirectIds : DriverDone(t)
  \/ \E t \in DirectIds : TimeoutElapses(t)
  \/ \E t \in DirectIds : WaitTimerFires(t)
  \/ \E t \in DirectIds : DirectReturn(t)

SpecTool == Init /\ [][NextTool]_vars

\* the page's clock runs and its event loop runs the timers that are due
SpecWait ==
  /\ SpecTool
  /\ \A t \in DirectIds : WF_vars(TimeoutElapses(t)) /\ WF_vars(WaitTimerFires(t))

Next ==
  \/ HostInitialize
  \/ \E p \in PageIds : CreatePage(p)
  \/ \E t \in TurnIds, id \in ConvIds, options \in AgentOptions : StartTurn(t, id, options)
  \/ \E t \in TurnIds : ContextDone(t)
  \/ \E t \in TurnIds : ProviderReply(t)
  \/ \E t \in TurnIds : InitDone(t)
  \/ \E t \in TurnIds : DriverDone(t)
  \/ \E t \in TurnIds : ToolCtxDone(t)
  \/ \E t \in TurnIds : DelayDone(t)
  \/ \E t \in TurnIds : FollowUpReply(t)
  \/ \E t \in TurnIds : PostContextDone(t)
  \/ \E t \in TurnIds : Return(t)

Spec == Init /\ [][Next]_vars

\* turns of one conversation on the openai service, one after the other,
\* whose follow-up response may carry tool calls
NextFollowUp ==
  \/ HostInitialize
  \/ \E p \in PageIds : CreatePage(p)
  \/ \E t \in TurnIds, options \in AgentOptions :
        /\ options.serviceType = "openai"
        /\ \A s \in TurnIds : pc[s] \in {"idle", "finished"}
        /\ StartTurn(t, "c1", options)
  \/ \E t \in TurnIds : ContextDone(t)
  \/ \E t \in TurnIds : ProviderReply(t)
  \/ \E t \in TurnIds : InitDone(t)
  \/ \E t \in TurnIds : DriverDone(t)
  \/ \E t \in TurnIds : ToolCtxDone(t)
  \/ \E t \in TurnIds : DelayDone(t)
  \/ \E t \in TurnIds : FollowUpReplyWithCalls(t)
  \/ \E t \in TurnIds : PostContextDone(t)
  \/ \E t \in TurnIds : Return(t)

SpecFollowUp == Init /\ [][NextFollowUp]_vars

\* the options of turns that may name either page session
BindingOptions ==
  {[serviceType |-> "openai", pageId |-> p, autoConfirm |-> FALSE, safetyLevel |-> "dangerous",
    updateContext |-> FALSE] : p \in AllPageIds}

\* turns of one conversation, one after the other, each naming a page session
NextBinding ==
  \/ HostInitialize
  \/ \E p \in AllPageIds : CreatePage(p)
  \/ \E t \in TurnIds, options \in BindingOptions :
        /\ \A s \in TurnIds : pc[s] \in {"idle", "finished"}
        /\ StartTurn(t, "c1", options)
  \/ \E t \in TurnIds : ContextDone(t)
  \/ \E t \in TurnIds : ProviderReply(t)
  \/ \E t \in TurnIds : InitDone(t)
  \/ \E t \in TurnIds : DriverDone(t)
  \/ \E t \in TurnIds : ToolCtxDone(t)
  \/ \E t \in TurnIds : DelayDone(t)
  \/ \E t \in TurnIds : FollowUpReply(t)
  \/ \E t \in TurnIds : PostContextDone(t)
  \/ \E t \in TurnIds : Return(t)

SpecBinding == Init /\ [][NextBinding]_vars

\* the conversation store over time: turns that end in the catch clause right
\* after their appends (the gemini service), clears, and the clock
NextStore ==
  \/ HostInitialize
  \/ \E p \in PageIds : CreatePage(p)
  \/ \E t \in TurnIds, id \in ConvIds, options \in AgentOptions :
        options.serviceType = "gemini" /\ StartTurn(t, id, options)
  \/ \E t \in TurnIds : ContextDone(t)
  \/ \E t \in TurnIds : Return(t)
  \/ \E id \in ConvIds : ClearConversation(id)
  \/ Tick

SpecStore == Init /\ [][NextStore]_vars

\* one conversation id, which can be cleared at any moment: a full turn on it,
\* and a later sendMessage on the same id (one that ends in the catch clause
\* right after its appends)
NextClear ==
  \/ HostInitialize
  \/ \E p \in PageIds : CreatePage(p)
  \/ \E t \in TurnIds, options \in AgentOptions :
        /\ options.serviceType = (IF t = 1 THEN "openai" ELSE "gemini")
        /\ StartTurn(t, "c1", options)
  \/ \E t \in TurnIds : ContextDone(t)
  \/ \E t \in TurnIds : ProviderReply(t)
  \/ \E t \in TurnIds : InitDone(t)
  \/ \E t \in TurnIds : DriverDone(t)
  \/ \E t \in TurnIds : ToolCtxDone(t)
  \/ \E t \in TurnIds : DelayDone(t)
  \/ \E t \in TurnIds : FollowUpReply(t)
  \/ \E t \in TurnIds : PostContextDone(t)
  \/ \E t \in TurnIds : Return(t)
  \/ ClearConversation("c1")

SpecClear == Init /\ [][NextClear]_vars

(* ------------------- the adapters' HTTP requests ----------------------- *)
\* the adapters and the send methods each of them defines
Adapters == {"openai", "claude", "gemini"}
SendMethods(service) ==
  IF service = "gemini" THEN {"sendMessage"} ELSE {"sendMessage", "sendMessageWithTools"}

\* what the https request of makeHttpRequest meets: a reply with a status and
\* a body, a reply whose JSON body does not parse, an 'error' event with a
\* code, or the 'timeout' event
HttpEvents ==
  {[kind |-> "response", status |-> st, code |-> "none"] :
      st \in {200, 400, 401, 429, 500, 503}}
  \cup {[kind |-> "badjson", status |-> 200, code |-> "none"]}
  \cup {[kind |-> "error", status |-> 0, code |-> c] :
          c \in {"ENOTFOUND", "ECONNREFUSED", "ECONNRESET"}}
  \cup {[kind |-> "timeout", status |-> 0, code |-> "none"]}

\* an error object as handleError reads it: error.response?.status (0 when
\* there is no response property) and error.code
ErrorObject(status, code) == [status |-> status, code |-> code]

\* makeHttpRequest: it resolves with the reply whatever its status is, and
\* rejects with the socket's error, with new Error('Invalid JSON response')
\* or with new Error('Request timeout')
makeHttpRequest(event) ==
  CASE event.kind = "response" -> [settled |-> "resolved", status |-> event.status,
                                  error |-> ErrorObject(0, "none")]
    [] event.kind = "error" -> [settled |-> "rejected", status |-> 0,
                               error |-> ErrorObject(0, event.code)]
    [] OTHER -> [settled |-> "rejected", status |-> 0, error |-> ErrorObject(0, "none")]

\* handleError(error, context): the failure class of the Error it throws
handleError(error) ==
  IF error.status = 401 THEN "authentication"
  ELSE IF error.status = 429 THEN "rate-limit"
  ELSE IF error.status >= 500 THEN "server-error"
  ELSE IF error.code \in {"ENOTFOUND", "ECONNREFUSED"} THEN "network"
  ELSE IF error.code = "TIMEOUT" THEN "timeout"
  ELSE "unknown"

\* the try / catch of sendMessage and sendMessageWithTools around the request:
\* a status other than 200 is thrown as new Error('... API error: <status>'),
\* and whatever is thrown goes through handleError
adapterSend(event) ==
  LET reply == makeHttpRequest(event)
  IN IF reply.settled = "rejected" THEN handleError(reply.error)
     ELSE IF reply.status # 200 THEN handleError(ErrorObject(0, "none"))
     ELSE "none"

\* an adapter sends the request
SendRequest(service, method) ==
  /\ httpCall.state = "idle"
  /\ httpCall' = [NoHttpCall EXCEPT !.service = service, !.method = method,
                                    !.state = "inflight"]
  /\ UNCHANGED exceptHttp

\* the request ends: a reply, a socket error or the timeout
RequestEnds(event) ==
  /\ httpCall.state = "inflight"
  /\ httpCall' = [httpCall EXCEPT !.state = "ended", !.event = event]
  /\ UNCHANGED exceptHttp

\* the adapter's method returns or throws
SendSettles ==
  /\ httpCall.state = "ended"
  /\ httpCall' = [httpCall EXCEPT !.state = "settled",
                                  !.raised = adapterSend(httpCall.event)]
  /\ UNCHANGED exceptHttp

\* the caller has the outcome
SendDone ==
  /\ httpCall.state = "settled"
  /\ httpCall' = NoHttpCall
  /\ UNCHANGED exceptHttp

NextHttp ==
  \/ \E service \in Adapters : \E method \in SendMethods(service) :
        SendRequest(service, method)
  \/ \E event \in HttpEvents : RequestEnds(event)
  \/ SendSettles
  \/ SendDone

SpecHttp == Init /\ [][NextHttp]_vars

(* ------------- the adapters' translation of a conversation ------------ *)
NoId == <<0, 0>>

\* an AIMessage with the names of its tool calls: role, toolCalls (each an id
\* and a name), toolCallId
AIMessage(role, toolCalls, toolCallId) ==
  [role |-> role, toolCalls |-> toolCalls, toolCallId |-> toolCallId]

\* a message of a backend's request body: tool_calls and tool_call_id are
\* empty / NoId when the message has no such property
WireMessage(role, toolCalls, toolCallId) ==
  [role |-> role, tool_calls |-> toolCalls, tool_call_id |-> toolCallId]

\* the messages one turn of sendMessage appends: the system message if one is
\* written, the user message, the assistant message with its tool calls, one
\* tool message per call and, after a batch, the final assistant message
TurnMessages(t, names, withSystem) ==
  LET calls == [i \in 1..Len(names) |-> [id |-> <<t, i>>, name |-> names[i]]]
  IN (IF withSystem THEN <<AIMessage("system", <<>>, NoId)>> ELSE <<>>)
     \o <<AIMessage("user", <<>>, NoId), AIMessage("assistant", calls, NoId)>>
     \o [i \in 1..Len(names) |-> AIMessage("tool", <<>>, calls[i].id)]
     \o (IF Len(names) > 0 THEN <<AIMessage("assistant", <<>>, NoId)>> ELSE <<>>)

BatchNames == UNION {[1..n -> AgentToolNames] : n \in 0..MaxBatch}

\* the conversations translated: one turn, or two
Histories ==
  {TurnMessages(1, names, TRUE) : names \in BatchNames}
  \cup {TurnMessages(1, n1, TRUE) \o TurnMessages(2, n2, sys) :
          n1 \in BatchNames, n2 \in BatchNames, sys \in BOOLEAN}

\* the messages.map of OpenAIService.sendMessageWithTools
openaiMessages(messages) ==
  [i \in 1..Len(messages) |->
     LET msg == messages[i]
     IN IF msg.role = "tool" THEN WireMessage("tool", <<>>, msg.toolCallId)
        ELSE IF msg.role = "assistant"
          THEN WireMessage("assistant", msg.toolCalls, NoId)
        ELSE WireMessage(msg.role, <<>>, NoId)]

\* ClaudeService.processMessagesForClaude: system messages are taken out,
\* every other message is sent as { role, content }
processMessagesForClaude(messages) ==
  LET conversationMessages == SelectSeq(messages, LAMBDA m : m.role # "system")
  IN [i \in 1..Len(conversationMessages) |->
        WireMessage(conversationMessages[i].role, <<>>, NoId)]

\* the request body's messages, per adapter that supports tool calling
wireMessages(service, messages) ==
  IF service = "openai" THEN openaiMessages(messages)
  ELSE processMessagesForClaude(messages)

ToolCallingAdapters == {"openai", "claude"}

InitWire ==
  /\ InitAgent
  /\ cleaning = NoCleaning
  /\ summaryCall = NoSummaryCall
  /\ httpCall = NoHttpCall
  /\ InitLimiter
  /\ wireCall \in {[service |-> sv, messages |-> h, state |-> "called", wire |-> <<>>] :
                     sv \in ToolCallingAdapters, h \in Histories}

\* sendMessageWithTools has built the messages of its request body
TranslateMessages ==
  /\ wireCall.state = "called"
  /\ wireCall' = [wireCall EXCEPT !.state = "translated",
                                  !.wire = wireMessages(wireCall.service, wireCall.messages)]
  /\ UNCHANGED exceptWire

NextWire == TranslateMessages

SpecWire == InitWire /\ [][NextWire]_vars

(* --------------------------- RateLimiter ------------------------------- *)
\* addService('test', ...) and addService('strict', ...)
configs ==
  [s \in LimitedServices |->
     IF s = "test" THEN [windowMs |-> 10000, maxRequests |-> 2]
     ELSE [windowMs |-> 10000, maxRequests |-> 1]]

\* the clock of the limiter advances in steps of half a window
LimiterStep == configs["test"].windowMs \div 2

\* serviceRequests.filter(timestamp => timestamp > windowStart)
validRequests(service, at) ==
  SelectSeq(requests[service], LAMBDA timestamp : timestamp > at - configs[service].windowMs)

\* checkLimit(service).isLimited
isLimited(service, at) == Len(validRequests(service, at)) >= configs[service].maxRequests

\* recordRequest(service) up to its await: checkLimit runs synchronously,
\* stores the filtered list and computes the status
RecordRequest(r, service) ==
  /\ recording[r].state = "idle"
  /\ requests' = [requests EXCEPT ![service] = validRequests(service, now)]
  /\ recording' = [recording EXCEPT ![r] =
        [service |-> service, state |-> "checked",
         isLimited |-> isLimited(service, now), recorded |-> FALSE]]
  /\ UNCHANGED exceptLimiter

\* recordRequest(service) after its await: throws when the status was
\* limited, pushes Date.now() otherwise
RecordContinues(r) ==
  /\ recording[r].state = "checked"
  /\ IF recording[r].isLimited
       THEN /\ recording' = [recording EXCEPT ![r].state = "rejected"]
            /\ UNCHANGED requests
       ELSE /\ requests' = [requests EXCEPT ![recording[r].service] = Append(@, now)]
            /\ recording' = [recording EXCEPT ![r].state = "resolved", ![r].recorded = TRUE]
  /\ UNCHANGED exceptLimiter

\* the caller has taken the outcome
RecordSettled(r) ==
  /\ recording[r].state \in {"resolved", "rejected"}
  /\ recording' = [recording EXCEPT ![r] = NoRecording]
  /\ UNCHANGED requests
  /\ UNCHANGED exceptLimiter

\* Date.now() advances
LimiterTick ==
  /\ now < MaxTicks * LimiterStep
  /\ now' = now + LimiterStep
  /\ UNCHANGED serviceVars
  /\ UNCHANGED <<conversations, heap, isInitialized, browser, launches, pages,
                 currentContext, contextHistory, pc, turn>>

NextLimiter ==
  \/ \E r \in RecordIds, service \in LimitedServices : RecordRequest(r, service)
  \/ \E r \in RecordIds : RecordContinues(r)
  \/ \E r \in RecordIds : RecordSettled(r)
  \/ LimiterTick

SpecLimiter == Init /\ [][NextLimiter]_vars

(* ------------------- createContentSummary ------------------------------ *)
\* longest content summarized
MaxContent == 7

\* a text is a sequence of characters; "nl" stands for a line break
Chars == {"a", " ", "nl"}
IsSpace(c) == c \in {" ", "nl"}

NoContentText == <<"N", "o", " ", "c", "o", "n", "t", "e", "n", "t", " ",
                   "a", "v", "a", "i", "l", "a", "b", "l", "e">>
Ellipsis == <<".", ".", ".">>

\* private createContentSummary(content, maxLength: number = 200)
defaultMaxLength == 200

RECURSIVE dropSpaces(_)
dropSpaces(s) == IF s # <<>> /\ IsSpace(Head(s)) THEN dropSpaces(Tail(s)) ELSE s

\* content.replace(/\s+/g, ' '), after which .replace(/\n+/g, ' ') finds nothing
RECURSIVE collapse(_)
collapse(s) ==
  IF s = <<>> THEN <<>>
  ELSE IF IsSpace(Head(s)) THEN <<" ">> \o collapse(dropSpaces(Tail(s)))
  ELSE <<Head(s)>> \o collapse(Tail(s))

RECURSIVE dropTrailingSpaces(_)
dropTrailingSpaces(s) ==
  IF s # <<>> /\ IsSpace(s[Len(s)]) THEN dropTrailingSpaces(SubSeq(s, 1, Len(s) - 1)) ELSE s

\* String.prototype.trim
trim(s) == dropTrailingSpaces(dropSpaces(s))

\* s.substring(from, to) for 0 <= from <= to: positions count from 0
substring(s, from, to) == SubSeq(s, from + 1, IF to > Len(s) THEN Len(s) ELSE to)

\* s.lastIndexOf(c): the position from 0, or -1
lastIndexOf(s, c) ==
  LET at == {i \in 1..Len(s) : s[i] = c}
  IN IF at = {} THEN -1 ELSE (CHOOSE i \in at : \A j \in at : j <= i) - 1

cleanedContent(content) == trim(collapse(content))

\* lastSpace > maxLength * 0.8, in integers: 0.8 as a double lies just above
\* 4/5 and no product with an integer rounds below the exact one
breaksAtSpace(lastSpace, maxLength) == lastSpace * 10 > maxLength * 8

createContentSummary(content, maxLength) ==
  LET max == IF maxLength.given THEN maxLength.value ELSE defaultMaxLength
      cleaned == cleanedContent(content)
      truncated == substring(cleaned, 0, max)
      lastSpace == lastIndexOf(truncated, " ")
  IN IF Len(content) = 0 THEN NoContentText
     ELSE IF Len(cleaned) <= max THEN cleaned
     ELSE IF breaksAtSpace(lastSpace, max)
       THEN substring(truncated, 0, lastSpace) \o Ellipsis
     ELSE truncated \o Ellipsis

SummaryInputs ==
  {[content |-> c, maxLength |-> m, state |-> "called", result |-> <<>>] :
     c \in UNION {[1..n -> Chars] : n \in 0..MaxContent},
     m \in {[given |-> FALSE, value |-> 0]}
             \cup {[given |-> TRUE, value |-> v] : v \in 0..(MaxContent - 1)}}

InitSummary ==
  /\ InitAgent
  /\ cleaning = NoCleaning
  /\ httpCall = NoHttpCall
  /\ wireCall = NoWireCall
  /\ InitLimiter
  /\ summaryCall \in SummaryInputs

\* the call returns
Summarize ==
  /\ summaryCall.state = "called"
  /\ summaryCall' = [summaryCall EXCEPT
                       !.state = "returned",
                       !.result = createContentSummary(summaryCall.content,
                                                       summaryCall.maxLength)]
  /\ UNCHANGED exceptSummary

NextSummary == Summarize

SpecSummary == InitSummary /\ [][NextSummary]_vars

(* ======================= properties ==================================== *)
Ids(calls) == [i \in 1..Len(calls) |-> calls[i].id]
IsPrefix(a, b) == Len(a) <= Len(b) /\ \A i \in 1..Len(a) : a[i] = b[i]
InExecuteTool(t) == pc[t] \in {"init", "driver", "toolctx"}
AgentTurn(t) == ~turn[t].direct /\ turn[t].conv # 0

\* every assistant message with k tool calls is followed at once by exactly k
\* tool messages carrying the ids of those calls in order, and no tool message
\* stands outside such a block
WellPaired(msgs) ==
  \A j \in 1..Len(msgs) :
    /\ msgs[j].role = "assistant" =>
         LET k == Len(msgs[j].toolCalls)
         IN /\ j + k <= Len(msgs)
            /\ \A i \in 1..k : /\ msgs[j + i].role = "tool"
                               /\ msgs[j + i].toolCallId = msgs[j].toolCalls[i]
            /\ j + k + 1 <= Len(msgs) => msgs[j + k + 1].role # "tool"
    /\ msgs[j].role = "tool" => j > 1 /\ msgs[j - 1].role \in {"assistant", "tool"}

\* C1 (as claimed): in every conversation, at every moment and also when turns
\* on it overlap, each assistant message carrying k tool calls is immediately
\* followed by exactly k tool messages whose toolCallId equal the ids of the
\* calls in order
C1_ToolMessagesPaired == \A c \in 1..Len(heap) : WellPaired(heap[c].messages)

\* C2 (as claimed): a dangerous tool called without autoConfirm never reaches
\* driver initialization or a driver primitive and returns success=false,
\* whatever safety level the caller granted
C2_DangerousAlwaysRefused ==
  \A t \in DirectIds :
    (/\ turn[t].direct
     /\ SafetyOf(turn[t].call.name) = "dangerous"
     /\ ~turn[t].execOptions.autoConfirm)
    => /\ ~InExecuteTool(t)
       /\ ~turn[t].result.success
       /\ ~turn[t].result.initTried
       /\ ~turn[t].result.driverReached

\* C3 (as claimed): with safe < moderate < dangerous and autoConfirm unset, a
\* call is refused by the gate exactly when the tool's level is above the
\* granted level
C3_RefusedIffAboveGrant ==
  \A t \in DirectIds :
    (/\ turn[t].direct
     /\ ~turn[t].execOptions.autoConfirm
     /\ turn[t].execOptions.safetyLevel # Undefined)
    => ((turn[t].result.kind = "gated")
          <=> (LevelRank(SafetyOf(turn[t].call.name))
                 > LevelRank(turn[t].execOptions.safetyLevel)))

\* C4: the calls of a batch are started in the order of the reply, a call is
\* started only once the one before it has returned, the results line up with
\* the calls, and a finished batch has one result per call even when calls failed
C4_SequentialOneResultPerCall ==
  \A t \in TurnIds : AgentTurn(t) =>
    LET tr == turn[t]
        calls == tr.response.toolCalls
    IN /\ IsPrefix(tr.started, Ids(calls))
       /\ Len(tr.toolResults) <= Len(tr.started)
       /\ Len(tr.started) <= Len(tr.toolResults) + 1
       /\ InExecuteTool(t) => Len(tr.started) = Len(tr.toolResults) + 1
       /\ \A i \in 1..Len(tr.toolResults) : tr.toolResults[i].callId = calls[i].id
       /\ (pc[t] \in {"followup", "postctx"} \/ (pc[t] = "done" /\ ~tr.threw))
            => /\ Len(tr.toolResults) = Len(calls)
               /\ tr.agentResponse.toolResults = tr.toolResults

\* a finished batch of two calls whose first call failed and whose second succeeded
C4_Witness ==
  \E t \in TurnIds :
    /\ pc[t] = "done"
    /\ ~turn[t].threw
    /\ Len(turn[t].toolResults) = 2
    /\ ~turn[t].toolResults[1].success
    /\ turn[t].toolResults[2].success

\* C5 (as claimed): two turns in flight on the same page session are never
\* inside executeTool at the same time
C5_NoConcurrentToolExecution ==
  \A t1 \in TurnIds, t2 \in TurnIds :
    (/\ t1 # t2
     /\ AgentTurn(t1) /\ AgentTurn(t2)
     /\ turn[t1].options.pageId = turn[t2].options.pageId)
    => ~(InExecuteTool(t1) /\ InExecuteTool(t2))

\* C6 (as claimed): after a tool batch the follow-up call is made exactly when
\* some result of the batch has success=true; with no success the text
\* returned is the text of the first reply
C6_FollowUpIffSomeSuccess ==
  \A t \in TurnIds :
    (/\ AgentTurn(t)
     /\ Len(turn[t].response.toolCalls) > 0
     /\ pc[t] \in {"followup", "postctx", "done"})
    => LET anyOk == \E i \in 1..Len(turn[t].toolResults) : turn[t].toolResults[i].success
       IN /\ turn[t].followUpCalls = (IF anyOk THEN 1 ELSE 0)
          /\ ~anyOk => turn[t].agentResponse.message = InitialText

\* C7: when the follow-up call of a turn is issued, the message list of its
\* request already holds the assistant message carrying the turn's tool calls,
\* followed at once by one tool message per call, in the order of the calls and
\* with their ids
C7_FollowUpSeesPairedBatch ==
  \A t \in TurnIds : pc[t] = "followup" =>
    LET req == turn[t].followUpRequest
        calls == turn[t].response.toolCalls
    IN \E j \in 1..Len(req) :
         /\ req[j].role = "assistant"
         /\ req[j].toolCalls = Ids(calls)
         /\ j + Len(calls) <= Len(req)
         /\ \A i \in 1..Len(calls) : /\ req[j + i].role = "tool"
                                      /\ req[j + i].toolCallId = calls[i].id

\* a follow-up request is in flight for a batch of two calls
C7_Witness ==
  \E t \in TurnIds :
    /\ pc[t] = "followup"
    /\ Len(turn[t].response.toolCalls) = 2
    /\ Len(turn[t].followUpRequest) >= 4

C9_NoUnansweredUser ==
  \A c \in 1..Len(heap) : ~heap[c].overlapped =>
    \A j \in 1..Len(heap[c].messages), k \in 1..Len(heap[c].messages) :
      (/\ j < k
       /\ heap[c].messages[j].role = "user"
       /\ heap[c].messages[k].role = "user")
      => \E m \in (j + 1)..(k - 1) : heap[c].messages[m].role = "assistant"

\* C10 (as claimed): a turn appends the system message exactly when it is the
\* conversation's first turn or the extracted URL differs from the URL the
\* conversation saw in its previous turn
C10_SystemIffFirstOrUrlChanged ==
  \A t \in TurnIds :
    (/\ AgentTurn(t)
     /\ turn[t].sys # NoSys
     /\ ~heap[turn[t].conv].overlapped)
    => (turn[t].sys.appended
          <=> (turn[t].sys.previous = "none"
                 \/ turn[t].sys.extracted # turn[t].sys.previous))

\* C11: a step that removes conversation id from the store leaves
\* getConversation(id) null and id out of getActiveConversations(), and leaves
\* every other conversation stored, with its object (messages, currentUrl,
\* pageId, lastActivity) as it was
C11_ClearRemovesOnlyThat ==
  [][\A id \in ConvIds :
       (conversations[id] # 0 /\ conversations'[id] = 0) =>
         /\ getConversation(id)' = "null"
         /\ \A i \in 1..Len(getActiveConversations') :
              /\ getActiveConversations'[i] # conversations[id]
              /\ heap'[getActiveConversations'[i]].id # id
         /\ \A other \in ConvIds \ {id} :
              /\ conversations'[other] = conversations[other]
              /\ conversations[other] # 0 =>
                    heap'[conversations[other]] = heap[conversations[other]]]_vars

\* a conversation has been cleared while another one on the same page session,
\* holding messages and a different lastActivity, is still stored and listed
C11_Witness ==
  \E c \in 1..Len(heap) :
    /\ c \notin storedConversations
    /\ \E i \in 1..Len(getActiveConversations) :
         LET o == getActiveConversations[i]
         IN /\ heap[o].pageId = heap[c].pageId
            /\ Len(heap[o].messages) > 0
            /\ heap[o].lastActivity # heap[c].lastActivity

\* C12: a conversation object that was cleared is never stored again, an id
\* comes back into the store only in the step that starts a new sendMessage,
\* and a turn in flight ends only by returning its resolved response
C12_ClearedStaysCleared ==
  [][/\ \A c \in 1..Len(heap') :
          heap'[c].cleared # "no" => c \notin storedConversations'
     /\ \A id \in ConvIds :
          (conversations[id] = 0 /\ conversations'[id] # 0) =>
            \E t \in TurnIds : pc[t] = "idle" /\ pc'[t] = "ctx"
     /\ \A t \in TurnIds :
          (pc[t] \notin {"idle", "finished"} /\ pc'[t] = "finished") =>
            pc[t] = "done" /\ turn[t].agentResponse.settled = "resolved"]_vars

\* a turn with a tool batch has resolved without an error although its
\* conversation was cleared while it was executing the batch: it appended the
\* batch to the object after the clear, and the id is still absent from the
\* store
C12_Witness ==
  \E t \in TurnIds :
    /\ pc[t] = "done"
    /\ ~turn[t].threw
    /\ Len(turn[t].response.toolCalls) > 0
    /\ heap[turn[t].conv].cleared = "midbatch"
    /\ ~heap[turn[t].conv].overlapped
    /\ \E j \in 1..Len(heap[turn[t].conv].messages) :
         heap[turn[t].conv].messages[j].role = "tool"
    /\ getConversation(heap[turn[t].conv].id) = "null"

\* whether a call leaves out a parameter its catalog entry requires
OmitsRequired(call) ==
  /\ call.name \in BROWSER_TOOLS
  /\ Required(call.name) # {}
  /\ \/ ~call.args.defined
     \/ \E p \in Required(call.name) : call.args.vals[p] = "absent"

\* C13: a call of a catalog tool that leaves out a required parameter, or
\* comes without an argument mapping, never stands at a driver primitive and
\* executeTool returns for it a failed result that says why (refused by the
\* gate, initialization failed, argument missing, or the handler's exception
\* caught by executeTool), having invoked no page primitive
C13_MissingRequiredRejected ==
  \A t \in DirectIds :
    (turn[t].direct /\ OmitsRequired(turn[t].call))
    => /\ pc[t] \in {"init", "returned"}
       /\ ~turn[t].result.driverReached
       /\ ~turn[t].result.success
       /\ pc[t] = "returned"
            => turn[t].result.kind \in {"gated", "initfail", "badargs", "threw"}

\* a type call with its selector and without its text has been answered by
\* the handler's own check, after the driver was initialized for it
C13_Witness ==
  \E t \in DirectIds :
    /\ pc[t] = "returned"
    /\ turn[t].direct
    /\ ~turn[t].result.driverReached
    /\ turn[t].call.name = "type"
    /\ turn[t].call.args.defined
    /\ turn[t].call.args.vals["selector"] = "valid"
    /\ turn[t].call.args.vals["text"] = "absent"
    /\ turn[t].result.kind = "badargs"
    /\ turn[t].result.initTried

\* whether an argument that is present breaks the declared type or enum
ViolatesSchema(call) ==
  /\ call.name \in BROWSER_TOOLS
  /\ call.args.defined
  /\ \E p \in Parameters(call.name) :
        call.args.vals[p] \in {"wrongtype", "notinenum", "wrongitems"}

\* C14 (as claimed): a call with an argument of the wrong type or outside the
\* declared enum is answered with a failed result before a handler is
\* dispatched: it never stands at a driver primitive and none was invoked
C14_InvalidShapeRejected ==
  \A t \in DirectIds :
    (turn[t].direct /\ ViolatesSchema(turn[t].call))
    => /\ pc[t] # "driver"
       /\ ~turn[t].result.driverReached
       /\ ~turn[t].result.success

\* C15: a call of a tool that is not in the catalog never stands at a driver
\* primitive and is answered with a failed result that says why, whatever
\* autoConfirm and the granted level are; its level is moderate, so without
\* autoConfirm and without a granted level the gate refuses it, before any
\* initialization
C15_UnknownToolRejected ==
  \A t \in DirectIds :
    (turn[t].direct /\ turn[t].call.name \notin BROWSER_TOOLS)
    => /\ SafetyOf(turn[t].call.name) = "moderate"
       /\ pc[t] \in {"init", "returned"}
       /\ ~turn[t].result.driverReached
       /\ ~turn[t].result.success
       /\ pc[t] = "returned" => turn[t].result.kind \in {"gated", "initfail", "unknown"}
       /\ (~turn[t].execOptions.autoConfirm /\ turn[t].execOptions.safetyLevel = Undefined)
            => /\ pc[t] = "returned"
               /\ turn[t].result.kind = "gated"
               /\ ~turn[t].result.initTried

\* an unknown tool got through the gate on autoConfirm, the driver was
\* initialized for it, and the switch answered "Unknown tool"
C15_Witness ==
  \E t \in DirectIds :
    /\ pc[t] = "returned"
    /\ turn[t].direct
    /\ turn[t].call.name = "bogus_tool"
    /\ turn[t].execOptions.autoConfirm
    /\ turn[t].result.kind = "unknown"
    /\ turn[t].result.initTried
    /\ ~turn[t].result.driverReached

\* C16: extractContext never rejects: whatever the page session and the
\* driver calls do, and whatever options it is given, the update that called
\* it gets a snapshot
C16_ExtractContextResolves ==
  \A t \in DirectIds :
    turn[t].ipc.settled # "none"
    => /\ turn[t].ipc.settled = "resolved"
       /\ turn[t].ipc.success
       /\ turn[t].ipc.context # NoContext
       /\ currentContext = turn[t].ipc.context

\* an extraction that threw inside (null options) has returned the minimal
\* snapshot of the catch clause
C16_Witness ==
  \E t \in DirectIds :
    /\ pc[t] = "returned"
    /\ turn[t].ipc.settled = "resolved"
    /\ turn[t].ipc.options = "null"
    /\ turn[t].ipc.context.pageTitle = "Error"

\* C17 (as claimed): when a step of the extraction failed (page session
\* missing, a script evaluation failed, an exception inside), the snapshot
\* returned has its error field set
C17_FailedStepSetsError ==
  \A t \in DirectIds :
    (/\ turn[t].ipc.settled = "resolved"
     /\ \/ turn[t].ipc.page = NoPage
        \/ ~turn[t].ipc.infoOk
        \/ ~turn[t].ipc.elemOk
        \/ turn[t].ipc.options = "null")
    => turn[t].ipc.context.error # Undefined

\* C18 (as claimed): a fill_form call in which some field resolved and some
\* did not returns success=true and its result carries the per-field map of
\* fillForm, true for the fields filled and false for the others
C18_FillFormReportsPerField ==
  \A t \in DirectIds :
    (/\ pc[t] = "returned"
     /\ turn[t].call.name = "fill_form"
     /\ turn[t].result.kind = "driver"
     /\ \E f, g \in DOMAIN turn[t].result.filled :
           turn[t].result.filled[f] /\ ~turn[t].result.filled[g])
    => /\ turn[t].result.success
       /\ turn[t].result.data = "formData"
       /\ turn[t].result.formData = turn[t].result.filled

\* C19 (as claimed): a type call whose selector the driver could not resolve
\* returns success=false
C19_TypeUnresolvedFails ==
  \A t \in DirectIds :
    (/\ pc[t] = "returned"
     /\ turn[t].call.name = "type"
     /\ turn[t].result.kind = "driver"
     /\ \E f \in DOMAIN turn[t].result.filled : ~turn[t].result.filled[f])
    => ~turn[t].result.success

\* C20: a wait_for_element call on a selector that never appears is never
\* answered with success, is not answered by the timer before the timeout
\* has passed, and always returns: once the script waits, executeTool comes
\* back with a failed result, for the default timeout, a given one and 0
C20_WaitTerminates ==
  /\ [](\A t \in DirectIds :
          (turn[t].direct /\ turn[t].call.name = "wait_for_element"
             /\ turn[t].call.args.defined
             /\ turn[t].call.args.vals["selector"] = "nomatch")
          => /\ ~turn[t].result.success
             /\ turn[t].result.kind = "timeout"
                  => turn[t].waited >= TimeoutOf(turn[t].call.args.vals["timeout"]))
  /\ \A t \in DirectIds :
        Armed(t) ~> (/\ pc[t] = "returned"
                     /\ turn[t].call.name = "wait_for_element"
                     /\ ~turn[t].result.success)

\* a wait with timeout 0 on a selector that matches nothing has been ended
\* by its timer
C20_Witness ==
  \E t \in DirectIds :
    /\ pc[t] = "returned"
    /\ turn[t].call.name = "wait_for_element"
    /\ turn[t].call.args.defined
    /\ turn[t].call.args.vals["selector"] = "nomatch"
    /\ turn[t].call.args.vals["timeout"] = "zero"
    /\ turn[t].result.kind = "timeout"
    /\ ~turn[t].result.success

\* C21 (as claimed): when the collapsed content is longer than maxContentLength
\* and the last space of its first maxContentLength characters lies in the
\* last 20% of that window, the summary is the text before that space and
\* "..."; the summary is never longer than maxContentLength + 4
C21_SummaryBacksUpToSpace ==
  summaryCall.state = "returned" =>
    LET max == IF summaryCall.maxLength.given THEN summaryCall.maxLength.value
               ELSE defaultMaxLength
        cleaned == cleanedContent(summaryCall.content)
        window == substring(cleaned, 0, max)
        lastSpace == lastIndexOf(window, " ")
    IN Len(cleaned) > max =>
         /\ Len(summaryCall.result) <= max + 4
         /\ (lastSpace >= 0 /\ lastSpace * 10 >= max * 8)
              => summaryCall.result = substring(window, 0, lastSpace) \o Ellipsis

\* C22 (as claimed): a reply with status 401, 429, 500 or above, a connection
\* failure and a request timeout are raised by the adapter's send method as
\* the authentication, rate-limit, server-error, network and timeout classes,
\* every other failure as unknown, and a good reply raises nothing
C22_FailuresClassified ==
  httpCall.state = "settled" =>
    LET event == httpCall.event
    IN httpCall.raised =
         (CASE event.kind = "response" /\ event.status = 200 -> "none"
            [] event.kind = "response" /\ event.status = 401 -> "authentication"
            [] event.kind = "response" /\ event.status = 429 -> "rate-limit"
            [] event.kind = "response" /\ event.status >= 500 -> "server-error"
            [] event.kind = "error" /\ event.code \in {"ENOTFOUND", "ECONNREFUSED"}
                 -> "network"
            [] event.kind = "timeout" -> "timeout"
            [] OTHER -> "unknown")

\* C23 (as claimed): in the wire form of a conversation, system messages
\* apart, every assistant message has the ids and names of its tool calls in
\* order and every tool message its correlation id
C23_WireKeepsPairing ==
  wireCall.state = "translated" =>
    LET kept == SelectSeq(wireCall.messages, LAMBDA m : m.role # "system")
        sent == SelectSeq(wireCall.wire, LAMBDA m : m.role # "system")
    IN /\ Len(sent) = Len(kept)
       /\ \A i \in 1..Len(kept) :
            /\ sent[i].role = kept[i].role
            /\ sent[i].tool_calls = kept[i].toolCalls
            /\ sent[i].tool_call_id = kept[i].toolCallId

\* C24 (as claimed): for every configured service the number of requests
\* recorded inside the current window never exceeds maxRequests, and a
\* recordRequest that found the window full rejects and records nothing
C24_WindowNeverOverfull ==
  /\ \A service \in LimitedServices :
       Len(validRequests(service, now)) <= configs[service].maxRequests
  /\ \A r \in RecordIds :
       /\ recording[r].state = "rejected" => recording[r].isLimited /\ ~recording[r].recorded
       /\ recording[r].state = "resolved" => ~recording[r].isLimited

\* C25: the snapshot history holds at most 10 entries, they are the most
\* recently superseded snapshots in the order they were superseded, and the
\* current snapshot is not an entry of the history
C25_HistoryBounded ==
  LET n == Len(contextHistory)
  IN /\ n <= maxHistorySize
     /\ n = (IF allocated = 0 THEN 0
             ELSE IF allocated - 1 < maxHistorySize THEN allocated - 1
             ELSE maxHistorySize)
     /\ \A i \in 1..n :
          /\ contextHistory[i].object = allocated - n + i - 1
          /\ contextHistory[i] # currentContext

C25_Witness ==
  /\ Len(contextHistory) = maxHistorySize
  /\ contextHistory[1].object > 1
  /\ currentContext.object = contextHistory[maxHistorySize].object + 1

\* C26 (as claimed): getPageChangeSummary() returns null when there is no
\* previous snapshot, and when the current and the previous snapshot have the
\* same URL, title and button selectors and the current one has no action error
C26_NoChangeGivesNull ==
  LET summary == getPageChangeSummary(currentContext, contextHistory)
  IN /\ Len(contextHistory) = 0 => summary = NullSummary
     /\ /\ Len(contextHistory) > 0
        /\ currentContext # NoContext
        /\ currentContext.currentUrl = contextHistory[Len(contextHistory)].currentUrl
        /\ currentContext.pageTitle = contextHistory[Len(contextHistory)].pageTitle
        /\ currentContext.buttons = contextHistory[Len(contextHistory)].buttons
        /\ ~Truthy(lastActionError(currentContext))
        => summary = NullSummary

\* C27: a call the gate lets through while the driver is not ready awaits
\* initialize() once (it enters the wait from the start of the call only, and
\* leaves it for good); if initialize() fails the call returns success=false
\* and no handler and no driver primitive has run; a call the gate refuses
\* never calls initialize()
C27_InitializesOnce ==
  [][\A t \in DirectIds :
       LET call == turn'[t].call
           res == turn'[t].result
           refused == ~canExecuteTool(call.name, SafetyOf(call.name), turn'[t].execOptions)
       IN /\ pc'[t] = "init" => pc[t] \in {"idle", "init"} /\ res.initTried
          /\ pc[t] = "init" /\ pc'[t] # "init" =>
               \/ res.kind = "initfail" /\ pc'[t] = "returned" /\ isInitialized' = isInitialized
               \/ res.kind # "initfail" /\ isInitialized'
          /\ pc[t] = "idle" /\ pc'[t] # "idle" /\ ~refused =>
               (pc'[t] = "init") = ~isReady
          /\ res.kind = "initfail" =>
               ~res.success /\ res.initTried /\ ~res.driverReached
          /\ pc'[t] # "idle" /\ refused =>
               /\ ~res.initTried
               /\ pc'[t] = "returned"
               /\ ~res.success
               /\ launches' = launches
  ]_vars

C27_Witness ==
  \E t \in DirectIds :
    /\ pc[t] = "returned"
    /\ turn[t].result.kind = "initfail"
    /\ turn[t].result.initTried
    /\ ~isReady

\* C28: in a turn the provider is called at most twice (the initial call and
\* one follow-up) and one batch is executed: when the follow-up response
\* settles, with or without tool calls, nothing is executed or appended, the
\* turn goes on to its last context refresh and then ends
C28_OneFollowUp ==
  [][\A t \in TurnIds :
       LET conv == turn[t].conv
           quiet == /\ heap'[conv].messages = heap[conv].messages
                    /\ pc'[t] # "finished" => /\ turn'[t].started = turn[t].started
                                              /\ turn'[t].toolResults = turn[t].toolResults
       IN /\ turn'[t].followUpCalls <= 1
          /\ IsPrefix(turn'[t].started, Ids(turn'[t].response.toolCalls))
          /\ pc'[t] = "provider" => pc[t] \in {"ctx", "provider"}
          /\ pc'[t] = "followup" /\ pc[t] # "followup" =>
               /\ pc[t] \notin {"postctx", "done", "finished", "idle", "ctx"}
               /\ turn[t].followUpCalls = 0
               /\ turn'[t].followUpCalls = 1
          /\ pc[t] = "followup" /\ pc'[t] # "followup" => pc'[t] = "postctx" /\ quiet
          /\ pc[t] = "postctx" /\ pc'[t] # "postctx" => pc'[t] = "done" /\ quiet
          /\ pc[t] = "done" /\ pc'[t] # "done" => pc'[t] = "finished" /\ quiet
  ]_vars

C28_Witness ==
  \E t \in TurnIds :
    /\ pc[t] = "postctx"
    /\ turn[t].followUpCalls = 1
    /\ Len(turn[t].followUpResponse.toolCalls) > 0
    /\ Len(turn[t].started) = Len(turn[t].response.toolCalls)

\* C29: the message list of a conversation only grows by appending: in every
\* step the list of each conversation object is a prefix of its list after
\* the step, and so is the list stored under an id that stays in the store
C29_MessagesAppendOnly ==
  [][/\ \A c \in 1..Len(heap) :
          /\ c <= Len(heap')
          /\ IsPrefix(heap[c].messages, heap'[c].messages)
     /\ \A id \in ConvIds :
          (conversations[id] # 0 /\ conversations'[id] # 0) =>
            IsPrefix(heap[conversations[id]].messages, heap'[conversations'[id]].messages)
    ]_vars

\* a conversation that was never cleared holds the messages of two turns, the
\* first of them with a tool batch
C29_Witness ==
  \E c \in 1..Len(heap) :
    /\ heap[c].cleared = "no"
    /\ c \in storedConversations
    /\ \E j \in 1..Len(heap[c].messages), k \in 1..Len(heap[c].messages) :
         /\ j < k
         /\ heap[c].messages[j].role = "tool"
         /\ heap[c].messages[k].role = "user"

\* C30 (as claimed): while a turn awaits a context extraction or a tool
\* execution, the page session it acts on is the one recorded in its
\* conversation when the conversation was created
C30_ActsOnBoundPage ==
  \A t \in TurnIds : AgentTurn(t) =>
    /\ pc[t] \in {"ctx", "postctx"} =>
         turn[t].options.pageId = heap[turn[t].conv].pageId
    /\ pc[t] \in {"init", "driver", "toolctx"} =>
         turn[t].execOptions.pageId = heap[turn[t].conv].pageId

\* C31 (as claimed): a turn on a provider without tool calling (gemini), once
\* its service is found, sends the conversation through the text-only send;
\* when it ends without error it has executed no tool, its last message is the
\* one assistant message it appended and its text is the provider's text
C31_TextOnlyPath ==
  \A t \in TurnIds :
    (AgentTurn(t) /\ turn[t].options.serviceType = "gemini") =>
      /\ turn[t].sys.service = "gemini" =>
           /\ pc[t] = "provider"
           /\ ~turn[t].usedTools
           /\ ~turn[t].threw
           /\ turn[t].request = heap[turn[t].conv].messages
      /\ (pc[t] = "done" /\ ~turn[t].threw) =>
           LET messages == heap[turn[t].conv].messages
           IN /\ turn[t].started = <<>>
              /\ turn[t].agentResponse.message = InitialText
              /\ messages[Len(messages)] = Msg("assistant", <<>>, Undefined)

\* whether a snapshot differs from the one before it in URL, title, buttons
\* or action error
Differs(previous, cur) ==
  \/ cur.currentUrl # previous.currentUrl
  \/ cur.pageTitle # previous.pageTitle
  \/ cur.buttons # previous.buttons
  \/ Truthy(lastActionError(cur))

\* C32 (as claimed): a turn that ran a tool batch and resolved returns a
\* contextUpdate exactly when the snapshot taken after the batch differs from
\* the snapshot before it
C32_ContextUpdateIsChange ==
  \A t \in TurnIds :
    (/\ AgentTurn(t)
     /\ pc[t] = "done"
     /\ ~turn[t].threw
     /\ Len(turn[t].response.toolCalls) > 0
     /\ Len(contextHistory) > 0)
    => (turn[t].agentResponse.contextUpdate
          <=> Differs(contextHistory[Len(contextHistory)], currentContext))

\* the tools that change the page
PageChangingTools == {"navigate", "click", "type", "scroll", "fill_form", "evaluate_script"}

\* C33 (as claimed): without autoConfirm and without a granted safety level no
\* tool that changes the page gets past the gate: it never awaits driver
\* initialization or a driver primitive
C33_UnconfirmedChangesRefused ==
  \A t \in DirectIds :
    (/\ turn[t].direct
     /\ ~turn[t].execOptions.autoConfirm
     /\ turn[t].execOptions.safetyLevel = Undefined
     /\ turn[t].call.name \in PageChangingTools)
    => /\ ~InExecuteTool(t)
       /\ ~turn[t].result.initTried
       /\ ~turn[t].result.driverReached
       /\ ~turn[t].result.success

\* C34 (as claimed): when a turn has resolved without error, the last message
\* of its conversation is an assistant message that announces no tool call:
\* the message carrying the final text
C34_HistoryEndsWithFinalText ==
  \A t \in TurnIds :
    (AgentTurn(t) /\ pc[t] = "done" /\ ~turn[t].threw) =>
      LET messages == heap[turn[t].conv].messages
      IN /\ Len(messages) > 0
         /\ messages[Len(messages)].role = "assistant"
         /\ messages[Len(messages)].toolCalls = <<>>

\* C35 (as claimed): no two executeTool calls await initialize() at the same
\* time and at most one browser is ever launched, so that no launch
\* overwrites the handle of an earlier one
C35_SingleInitialization ==
  /\ \A t1 \in TurnIds, t2 \in TurnIds :
       t1 # t2 => ~(pc[t1] = "init" /\ pc[t2] = "init")
  /\ launches <= 1

\* C36 (as claimed): the snapshots the current snapshot has superseded, the
\* last of which it is compared against, were extracted from the page session
\* of the current snapshot
C36_HistoryPerSession ==
  currentContext # NoContext =>
    \A i \in 1..Len(contextHistory) :
      contextHistory[i].session = currentContext.session

\* C37: once cleanup() has completed, isReady() is false, no page is
\* registered and the browser handle is null, also when the close of a page
\* or of the browser failed; and cleanup() has resolved, never rejected
C37_CleanupLeavesNothing ==
  cleaning.state = "done" =>
    /\ ~isReady
    /\ registered = {}
    /\ browser = 0
    /\ cleaning.settled = "resolved"

\* a cleanup of a browser with a page completed although both closes failed
C37_Witness ==
  /\ cleaning.state = "done"
  /\ cleaning.pageFailed # {}
  /\ cleaning.browserFailed
  /\ launches > 0

====
